---------------------------- MODULE Spec2Model ----------------------------
(***************************************************************************)
(* Model of the FEC module (Fichier des Ecritures Comptables) of           *)
(* numma-loader.js: validateEntry, validateFECCompliance, generateFECFile  *)
(* and parseFECFile.                                                       *)
(*                                                                         *)
(* JavaScript strings are TLA+ strings (TLC evaluates Len, SubSeq and \o   *)
(* on them), so the codec is modelled character by character.  A JavaScript*)
(* object is a function whose DOMAIN is the set of its own properties: a   *)
(* missing property (undefined) is a field outside DOMAIN.                 *)
(*                                                                         *)
(* JavaScript numbers are modelled as exact decimals counted in cents      *)
(* (hundredths), held in two limbs because 9999999999.99 does not fit a    *)
(* TLC integer.  The amounts fed to the model have at most two fractional  *)
(* digits and no exponent, so IEEE-754 rounding is outside the model.      *)
(* Message texts are written without their accents.                        *)
(***************************************************************************)
EXTENDS Integers, Sequences, FiniteSets, TLC

VARIABLES
    ledger,     \* the caller's entries (array of entry objects)
    content,    \* the raw text handed to parseFECFile
    report,     \* outcome of validateFECCompliance(ledger)
    again,      \* outcome of a second validateFECCompliance(ledger)
    text,       \* outcome of generateFECFile(ledger)
    parsed,     \* outcome of parseFECFile(content)
    reparsed,   \* outcome of parseFECFile on the generated text
    stats,      \* outcome of getStatistics(ledger)
    importing,  \* the call of importFEC on a file holding content
    state,      \* the pointage module's state: syncInterval, pendingPointages, isSyncing
    pointages,  \* the pointage objects created so far: id -> attempts
    storage,    \* localStorage[PENDING_KEY]: the saved queue, each pointage with its attempts
    loops,      \* the calls of syncPendingPointages suspended at an await
    backend,    \* the requests the backend received and the pointages it accepted
    reloads,    \* the number of times the page was loaded again
    session,    \* the auth token of sessionStorage: "missing", "expired" or "valid"
    location,   \* window.location: origin and href
    AppState,   \* currentView, viewCache (the views cached), initialized
    dom,        \* the sidebar and top bar, the active nav item, the title, the view container
    calls,      \* the calls of switchView suspended in loadView
    history,    \* what was asked of the application so far
    clock,      \* Date.now(), in minutes
    invoiceCache, \* the invoice module's cache: data, lastUpdate, filters
    requests,   \* the calls of listInvoices and getInvoice awaiting their response
    resolved    \* the call of listInvoices or getInvoice that settled last

vars == <<ledger, content, report, again, text, parsed, reparsed, stats, importing,
          state, pointages, storage, loops, backend, reloads,
          session, location, AppState, dom, calls, history,
          clock, invoiceCache, requests, resolved>>

\* What the calls of validateFECCompliance, generateFECFile and parseFECFile
\* leave alone
\* The variables of the pointage module
pointageVars == <<state, pointages, storage, loops, backend, reloads>>

\* The variables of the application controller
appVars == <<session, location, AppState, dom, calls, history>>

\* The variables of the invoice module
cacheVars == <<clock, invoiceCache, requests, resolved>>

laterVars == <<stats, importing, pointageVars, appVars, cacheVars>>

-----------------------------------------------------------------------------
(* String primitives                                                       *)

Char(s, i) == SubSeq(s, i, i)

\* The characters the model's inputs are written in, in code-unit order.
Alphabet == "\t\n\r ,-.0123456789ABCDEFGHIJKLMNOPQRSTUVWXYZabcdefghijklmnopqrstuvwxyz|"

CharCode(c) == CHOOSE i \in 1..Len(Alphabet) : Char(Alphabet, i) = c

Digits == {"0", "1", "2", "3", "4", "5", "6", "7", "8", "9"}

DigitVal(c) == CharCode(c) - CharCode("0")

DigitChar(d) == Char("0123456789", d + 1)

IsSpace(c) == c \in {" ", "\t", "\r", "\n"}

\* The first position at or after i that holds no white space (Len(s) + 1 if none)
RECURSIVE SkipSpaces(_, _)
SkipSpaces(s, i) ==
    IF i <= Len(s) /\ IsSpace(Char(s, i)) THEN SkipSpaces(s, i + 1) ELSE i

\* The last position at or before i that holds no white space (0 if none)
RECURSIVE SkipSpacesBack(_, _)
SkipSpacesBack(s, i) ==
    IF i >= 1 /\ IsSpace(Char(s, i)) THEN SkipSpacesBack(s, i - 1) ELSE i

\* String.prototype.trim
Trim(s) ==
    LET from == SkipSpaces(s, 1)
    IN  IF from > Len(s) THEN "" ELSE SubSeq(s, from, SkipSpacesBack(s, Len(s)))

RECURSIVE RemoveFrom(_, _, _)
RemoveFrom(s, c, i) ==
    IF i > Len(s) THEN ""
    ELSE (IF Char(s, i) = c THEN "" ELSE Char(s, i)) \o RemoveFrom(s, c, i + 1)

\* s.replace(/c/g, ''): every occurrence
RemoveAll(s, c) == RemoveFrom(s, c, 1)

\* s.indexOf(c, from): the first position at or after from that holds c (0 if none)
IndexOf(s, c, from) ==
    IF \E i \in from..Len(s) : Char(s, i) = c
    THEN CHOOSE i \in from..Len(s) :
             Char(s, i) = c /\ \A j \in from..(i - 1) : Char(s, j) # c
    ELSE 0

\* s.replace(c, d) with a string pattern: the first occurrence only
ReplaceFirst(s, c, d) ==
    LET k == IndexOf(s, c, 1)
    IN  IF k = 0 THEN s ELSE SubSeq(s, 1, k - 1) \o d \o SubSeq(s, k + 1, Len(s))

RECURSIVE SplitFrom(_, _, _)
SplitFrom(s, c, start) ==
    LET i == IndexOf(s, c, start)
    IN  IF i = 0 THEN <<SubSeq(s, start, Len(s))>>
        ELSE <<SubSeq(s, start, i - 1)>> \o SplitFrom(s, c, i + 1)

\* s.split(c) for a one-character separator
Split(s, c) == SplitFrom(s, c, 1)

RECURSIVE SplitLinesFrom(_, _)
SplitLinesFrom(s, start) ==
    LET i == IndexOf(s, "\n", start)
    IN  IF i = 0 THEN <<SubSeq(s, start, Len(s))>>
        ELSE LET stop == IF i > start /\ Char(s, i - 1) = "\r" THEN i - 2 ELSE i - 1
             IN  <<SubSeq(s, start, stop)>> \o SplitLinesFrom(s, i + 1)

\* s.split(/\r?\n/)
SplitLines(s) == SplitLinesFrom(s, 1)

RECURSIVE JoinFrom(_, _, _)
JoinFrom(parts, sep, i) ==
    IF i > Len(parts) THEN ""
    ELSE IF i = Len(parts) THEN parts[i]
    ELSE parts[i] \o sep \o JoinFrom(parts, sep, i + 1)

\* Array.prototype.join
Join(parts, sep) == JoinFrom(parts, sep, 1)

RECURSIVE StrLessFrom(_, _, _)
StrLessFrom(a, b, i) ==
    IF i > Len(b) THEN FALSE
    ELSE IF i > Len(a) THEN TRUE
    ELSE IF Char(a, i) = Char(b, i) THEN StrLessFrom(a, b, i + 1)
    ELSE CharCode(Char(a, i)) < CharCode(Char(b, i))

\* a < b on strings: code-unit order
StrLess(a, b) == StrLessFrom(a, b, 1)

RECURSIVE NatToString(_)
NatToString(n) ==
    IF n < 10 THEN DigitChar(n) ELSE NatToString(n \div 10) \o DigitChar(n % 10)

RECURSIVE PadLeft(_, _)
PadLeft(s, n) == IF Len(s) >= n THEN s ELSE PadLeft("0" \o s, n)

-----------------------------------------------------------------------------
(* Numbers: exact decimals in cents, magnitude = hi * Base + lo            *)

Base == 10000 * 10000

MagZero == [hi |-> 0, lo |-> 0]

MagLess(a, b) == a.hi < b.hi \/ (a.hi = b.hi /\ a.lo < b.lo)

MagAdd(a, b) ==
    LET l == a.lo + b.lo
    IN  [hi |-> a.hi + b.hi + (l \div Base), lo |-> l % Base]

\* a - b for a >= b
MagSub(a, b) ==
    IF a.lo >= b.lo THEN [hi |-> a.hi - b.hi, lo |-> a.lo - b.lo]
    ELSE [hi |-> a.hi - b.hi - 1, lo |-> a.lo + Base - b.lo]

MagShift(m, d) ==
    LET l == m.lo * 10 + d
    IN  [hi |-> m.hi * 10 + (l \div Base), lo |-> l % Base]

RECURSIVE MagOfDigits(_, _)
MagOfDigits(s, n) ==
    IF n = 0 THEN MagZero ELSE MagShift(MagOfDigits(s, n - 1), DigitVal(Char(s, n)))

NaN == [nan |-> TRUE, neg |-> FALSE, mag |-> MagZero]

Num(neg, mag) == [nan |-> FALSE, neg |-> neg /\ mag # MagZero, mag |-> mag]

Zero == Num(FALSE, MagZero)

NumAdd(a, b) ==
    IF a.nan \/ b.nan THEN NaN
    ELSE IF a.neg = b.neg THEN Num(a.neg, MagAdd(a.mag, b.mag))
    ELSE IF MagLess(a.mag, b.mag) THEN Num(b.neg, MagSub(b.mag, a.mag))
    ELSE Num(a.neg, MagSub(a.mag, b.mag))

NumNeg(a) == IF a.nan THEN NaN ELSE Num(~a.neg, a.mag)

NumSub(a, b) == NumAdd(a, NumNeg(b))

\* Math.abs
NumAbs(a) == IF a.nan THEN NaN ELSE Num(FALSE, a.mag)

\* a > b; false when either is NaN
NumGT(a, b) ==
    /\ ~a.nan
    /\ ~b.nan
    /\ IF a.neg /\ ~b.neg THEN FALSE
       ELSE IF ~a.neg /\ b.neg THEN TRUE
       ELSE IF a.neg THEN MagLess(a.mag, b.mag)
       ELSE MagLess(b.mag, a.mag)

\* a === 0
NumIsZero(a) == ~a.nan /\ a.mag = MagZero

\* Length of the longest prefix of digits of s starting at position i
RECURSIVE DigitRun(_, _)
DigitRun(s, i) ==
    IF i <= Len(s) /\ Char(s, i) \in Digits THEN 1 + DigitRun(s, i + 1) ELSE 0

\* parseFloat on a string: leading white space, a sign, digits, a '.' and
\* digits; the longest such prefix is the value and NaN if it has no digit.
ParseFloat(s) ==
    LET first == SkipSpaces(s, 1)
        sign  == first <= Len(s) /\ Char(s, first) \in {"-", "+"}
        neg   == sign /\ Char(s, first) = "-"
        p     == IF sign THEN first + 1 ELSE first
        n1    == DigitRun(s, p)
        dot   == p + n1 <= Len(s) /\ Char(s, p + n1) = "."
        n2    == IF dot THEN DigitRun(s, p + n1 + 1) ELSE 0
        ip    == SubSeq(s, p, p + n1 - 1)
        fp    == SubSeq(SubSeq(s, p + n1 + 1, p + n1 + n2) \o "00", 1, 2)
        all   == ip \o fp
    IN  IF n1 = 0 /\ n2 = 0 THEN NaN ELSE Num(neg, MagOfDigits(all, Len(all)))

MagToString(m) ==
    IF m.hi = 0 THEN NatToString(m.lo)
    ELSE NatToString(m.hi) \o PadLeft(NatToString(m.lo), 8)

\* Number.prototype.toFixed(2)
ToFixed2(a) ==
    IF a.nan THEN "NaN"
    ELSE LET d == PadLeft(MagToString(a.mag), 3)
         IN  (IF a.neg THEN "-" ELSE "") \o SubSeq(d, 1, Len(d) - 2)
                 \o "." \o SubSeq(d, Len(d) - 1, Len(d))

\* String(number), as in a template literal
NumberToString(a) ==
    LET f == ToFixed2(a)
        n == Len(f)
    IN  IF a.nan THEN "NaN"
        ELSE IF SubSeq(f, n - 2, n) = ".00" THEN SubSeq(f, 1, n - 3)
        ELSE IF Char(f, n) = "0" THEN SubSeq(f, 1, n - 1)
        ELSE f

-----------------------------------------------------------------------------
(* FEC_CONFIG                                                              *)

FIELDS ==
    << "JournalCode", "JournalLib", "EcritureNum", "EcritureDate", "CompteNum",
       "CompteLib", "CompAuxNum", "CompAuxLib", "PieceRef", "PieceDate",
       "EcritureLib", "Debit", "Credit", "EcritureLet", "DateLet", "ValidDate",
       "Montantdevise", "Idevise" >>

ACCOUNT_MIN_LENGTH == 3

ACCOUNT_MAX_LENGTH == 20

\* 9999999999.99, in cents
MAX_AMOUNT == Num(FALSE, [hi |-> 9999, lo |-> 99999999])

\* 0.01, in cents
BALANCE_TOLERANCE == Num(FALSE, [hi |-> 0, lo |-> 1])

PCG_CLASSES == {"1", "2", "3", "4", "5", "6", "7", "8"}

JOURNAL_CODES == {"AC", "VE", "BQ", "CA", "OD", "AN"}

\* /^\d{8}$/.test(s)
DATE_FORMAT(s) == Len(s) = 8 /\ \A i \in 1..8 : Char(s, i) \in Digits

-----------------------------------------------------------------------------
(* Entry objects                                                           *)

Has(entry, field) == field \in DOMAIN entry

\* entry[field] is truthy: present and not the empty string
Truthy(entry, field) == Has(entry, field) /\ entry[field] # ""

\* entry[field] inside a template literal, or used as a property key
Show(entry, field) == IF Has(entry, field) THEN entry[field] ELSE "undefined"

\* parseFloat(entry[field] || 0)
Amount(entry, field) ==
    IF Truthy(entry, field) THEN ParseFloat(entry[field]) ELSE Zero

Cond(b, x) == IF b THEN <<x>> ELSE <<>>

RECURSIVE Flatten(_, _)
Flatten(seqs, i) == IF i > Len(seqs) THEN <<>> ELSE seqs[i] \o Flatten(seqs, i + 1)

\* The messages pushed by the forEach over requiredFields
RequiredErrors(entry) ==
    LET requiredFields == << "JournalCode", "EcritureNum", "EcritureDate",
                             "CompteNum", "CompteLib", "PieceRef", "EcritureLib" >>
    IN  Flatten([k \in 1..Len(requiredFields) |->
                    LET field == requiredFields[k]
                    IN  Cond(~Truthy(entry, field) \/ Trim(entry[field]) = "",
                             "Champ requis manquant: " \o field)], 1)

DateErrors(entry) ==
    Cond(Truthy(entry, "EcritureDate") /\ ~DATE_FORMAT(entry.EcritureDate),
         "Format de date invalide: " \o Show(entry, "EcritureDate")
             \o " (attendu: YYYYMMDD)")

\* Mutant: the length bounds are taken as exclusive
AccountErrors_StrictBounds(entry) ==
    IF Truthy(entry, "CompteNum")
    THEN LET accountLen   == Len(entry.CompteNum)
             accountClass == Char(entry.CompteNum, 1)
         IN  Cond(accountLen <= ACCOUNT_MIN_LENGTH \/ accountLen >= ACCOUNT_MAX_LENGTH,
                  "Numero de compte invalide: " \o entry.CompteNum)
             \o Cond(accountClass \notin PCG_CLASSES,
                     "Classe de compte invalide: " \o accountClass)
    ELSE <<>>

AccountErrors(entry) ==
    IF Truthy(entry, "CompteNum")
    THEN LET accountLen   == Len(entry.CompteNum)
             accountClass == Char(entry.CompteNum, 1)
         IN  Cond(accountLen < ACCOUNT_MIN_LENGTH \/ accountLen > ACCOUNT_MAX_LENGTH,
                  "Numero de compte invalide: " \o entry.CompteNum)
             \o Cond(accountClass \notin PCG_CLASSES,
                     "Classe de compte invalide: " \o accountClass)
    ELSE <<>>

BothZeroMessage == "Au moins un montant (debit ou credit) doit etre non nul"

BothSetMessage == "Debit et credit ne peuvent pas etre tous deux renseignes"

\* Mutant: the check that at least one amount is non-zero is left out
AmountErrors_NoZeroCheck(entry) ==
    LET debit  == Amount(entry, "Debit")
        credit == Amount(entry, "Credit")
    IN  Cond(debit.nan, "Montant debit invalide: " \o Show(entry, "Debit"))
        \o Cond(credit.nan, "Montant credit invalide: " \o Show(entry, "Credit"))
        \o Cond(NumGT(debit, MAX_AMOUNT), "Debit trop eleve: " \o NumberToString(debit))
        \o Cond(NumGT(credit, MAX_AMOUNT), "Credit trop eleve: " \o NumberToString(credit))
        \o Cond(NumGT(debit, Zero) /\ NumGT(credit, Zero), BothSetMessage)

AmountErrors(entry) ==
    LET debit  == Amount(entry, "Debit")
        credit == Amount(entry, "Credit")
    IN  Cond(debit.nan, "Montant debit invalide: " \o Show(entry, "Debit"))
        \o Cond(credit.nan, "Montant credit invalide: " \o Show(entry, "Credit"))
        \o Cond(NumGT(debit, MAX_AMOUNT), "Debit trop eleve: " \o NumberToString(debit))
        \o Cond(NumGT(credit, MAX_AMOUNT), "Credit trop eleve: " \o NumberToString(credit))
        \o Cond(NumIsZero(debit) /\ NumIsZero(credit), BothZeroMessage)
        \o Cond(NumGT(debit, Zero) /\ NumGT(credit, Zero), BothSetMessage)

validateEntry(entry) ==
    LET errors == RequiredErrors(entry) \o DateErrors(entry)
                    \o AccountErrors(entry) \o AmountErrors(entry)
    IN  [valid |-> errors = <<>>, errors |-> errors]

-----------------------------------------------------------------------------
(* validateFECCompliance                                                   *)

Indices(entries) == [i \in 1..Len(entries) |-> i]

\* entry.EcritureNum || `Ligne ${index + 1}`
EntryTag(entries, i) ==
    IF Truthy(entries[i], "EcritureNum") THEN entries[i].EcritureNum
    ELSE "Ligne " \o NatToString(i)

\* Pass 1: individual entry validation
EntryPass(entries) ==
    Flatten([i \in 1..Len(entries) |->
                LET validation == validateEntry(entries[i])
                IN  [k \in 1..Len(validation.errors) |->
                        [type    |-> "ENTRY_INVALID",
                         message |-> validation.errors[k],
                         entry   |-> EntryTag(entries, i)]]], 1)

\* The property key entry.PieceRef selects in pieceRefs.  The inputs hold no
\* key of Object.prototype and no integer-like key, so Object.entries
\* lists the keys in insertion order.
PieceKey(entry) == Show(entry, "PieceRef")

PieceKeys(entries) ==
    SelectSeq(Indices(entries),
              LAMBDA i : \A j \in 1..(i - 1) : PieceKey(entries[j]) # PieceKey(entries[i]))

RECURSIVE PieceTotal(_, _, _, _)
PieceTotal(entries, ref, field, n) ==
    IF n = 0 THEN Zero
    ELSE IF PieceKey(entries[n]) = ref
         THEN NumAdd(PieceTotal(entries, ref, field, n - 1), Amount(entries[n], field))
         ELSE PieceTotal(entries, ref, field, n - 1)

\* Mutant: the tolerance test written with >= instead of >
Unbalanced_Inclusive(debit, credit) ==
    LET diff == NumAbs(NumSub(debit, credit))
    IN  NumGT(diff, BALANCE_TOLERANCE) \/ diff = BALANCE_TOLERANCE

Unbalanced(debit, credit) == NumGT(NumAbs(NumSub(debit, credit)), BALANCE_TOLERANCE)

\* Pass 2: balance verification per PieceRef
BalancePass(entries) ==
    LET firsts == PieceKeys(entries)
    IN  Flatten([k \in 1..Len(firsts) |->
                    LET ref    == PieceKey(entries[firsts[k]])
                        debit  == PieceTotal(entries, ref, "Debit", Len(entries))
                        credit == PieceTotal(entries, ref, "Credit", Len(entries))
                    IN  Cond(Unbalanced(debit, credit),
                             [type    |-> "BALANCE_ERROR",
                              message |-> "Piece " \o ref \o " desequilibree: Debit "
                                            \o ToFixed2(debit) \o " != Credit "
                                            \o ToFixed2(credit),
                              entry   |-> ref])], 1)

\* A stable sort of items by Less: the item of rank i comes i-th
StableSort(items, Less(_, _)) ==
    LET n       == Len(items)
        Rank(j) == Cardinality({m \in 1..n : \/ Less(items[m], items[j])
                                             \/ (~Less(items[j], items[m]) /\ m <= j)})
    IN  [i \in 1..n |-> items[CHOOSE j \in 1..n : Rank(j) = i]]

\* a.date.localeCompare(b.date) < 0.  An undefined argument is compared as
\* the string "undefined"; the dates of the inputs are made of digits, which
\* the collation orders as the code units do.
DateBefore(a, b) == StrLess(a.date, b.date)

\* entries.map(e => ({date, num})).sort(...), when no comparison throws
SortedDates(entries) ==
    StableSort([i \in 1..Len(entries) |->
                   [date    |-> Show(entries[i], "EcritureDate"),
                    hasDate |-> Has(entries[i], "EcritureDate"),
                    num     |-> Show(entries[i], "EcritureNum")]],
               DateBefore)

\* Pass 3: chronological order verification
ChronologyPass(entries) ==
    LET dates == SortedDates(entries)
    IN  Flatten([index \in 1..Len(dates) |->
                    Cond(/\ index > 1
                         /\ dates[index].hasDate
                         /\ dates[index - 1].hasDate
                         /\ StrLess(dates[index].date, dates[index - 1].date),
                         [type    |-> "CHRONOLOGY_WARNING",
                          message |-> "Ordre chronologique non respecte: "
                                        \o dates[index].num \o " (" \o dates[index].date
                                        \o ") apres " \o dates[index - 1].num \o " ("
                                        \o dates[index - 1].date \o ")"])], 1)

\* The default sort: undefined last, strings in code-unit order
NumBefore(a, b) == (a.has /\ ~b.has) \/ (a.has /\ b.has /\ StrLess(a.num, b.num))

\* Mutant: the numbers are compared in ledger order, without the sort
SortedNums_Unsorted(entries) ==
    [i \in 1..Len(entries) |->
        [num |-> Show(entries[i], "EcritureNum"), has |-> Has(entries[i], "EcritureNum")]]

SortedNums(entries) ==
    StableSort([i \in 1..Len(entries) |->
                   [num |-> Show(entries[i], "EcritureNum"),
                    has |-> Has(entries[i], "EcritureNum")]],
               NumBefore)

\* Pass 4: sequence continuity check
DuplicatePass(entries) ==
    LET ecritureNums == SortedNums(entries)
    IN  Flatten([i \in 1..Len(ecritureNums) |->
                    Cond(i > 1 /\ ecritureNums[i] = ecritureNums[i - 1],
                         [type    |-> "DUPLICATE_NUM",
                          message |-> "Numero d'ecriture duplique: "
                                        \o ecritureNums[i].num])], 1)

StartsWith(s, prefix) ==
    Len(s) >= Len(prefix) /\ SubSeq(s, 1, Len(prefix)) = prefix

\* parseFloat(entry.Debit || entry.Credit || 0)
VatAmount(entry) ==
    IF Truthy(entry, "Debit") THEN ParseFloat(entry.Debit)
    ELSE IF Truthy(entry, "Credit") THEN ParseFloat(entry.Credit)
    ELSE Zero

\* An issue whose entry property is entry.EcritureNum: a property holding
\* undefined reads like a missing one, and is left out.
Tagged(issue, entry) ==
    IF Has(entry, "EcritureNum")
    THEN [type |-> issue.type, message |-> issue.message, entry |-> entry.EcritureNum]
    ELSE issue

\* Pass 5: VAT account validation (445*)
VatPass(entries) ==
    Flatten([i \in 1..Len(entries) |->
                Cond(/\ Truthy(entries[i], "CompteNum")
                     /\ StartsWith(entries[i].CompteNum, "445")
                     /\ NumIsZero(VatAmount(entries[i])),
                     Tagged([type    |-> "VAT_WARNING",
                             message |-> "Compte TVA " \o Show(entries[i], "CompteNum")
                                           \o " avec montant nul"], entries[i]))], 1)

\* Pass 6: journal code validation
JournalPass(entries) ==
    Flatten([i \in 1..Len(entries) |->
                Cond(/\ Truthy(entries[i], "JournalCode")
                     /\ entries[i].JournalCode \notin JOURNAL_CODES,
                     Tagged([type    |-> "UNKNOWN_JOURNAL",
                             message |-> "Code journal non standard: "
                                           \o Show(entries[i], "JournalCode")],
                            entries[i]))], 1)

\* importFEC before it is called: its position, the entries parsed, the
\* report of the validator, the warning shown, the entries POSTed, the success
NoImport ==
    [pc |-> "idle", entries |-> <<>>, validation |-> [called |-> FALSE],
     warned |-> FALSE, posted |-> <<>>, success |-> FALSE]

\* The catch block of importFEC: showError and rethrow
ImportFailed(call) == [call EXCEPT !.pc = "thrown"]

\* The pointage module when its script has run on a page with nothing stored:
\* no pending pointage, no sync running, the auto-sync timer started
PointagesLoaded ==
    /\ state = [syncInterval |-> TRUE, pendingPointages |-> <<>>, isSyncing |-> FALSE]
    /\ pointages = <<>>
    /\ storage = <<>>
    /\ loops = <<>>
    /\ backend = [sends |-> <<>>, synced |-> {}]
    /\ reloads = 0

\* The page of the application when the script of main.js starts: a token
\* that is valid, and nothing rendered yet
AppLoaded ==
    /\ session = "valid"
    /\ location = [origin |-> "https://numma.app", href |-> "https://numma.app/index.html"]
    /\ AppState = [currentView |-> "null", viewCache |-> {}, initialized |-> FALSE]
    /\ dom = [sidebar |-> FALSE, activeNav |-> "none", title |-> "none",
              container |-> [kind |-> "empty"]]
    /\ calls = <<>>
    /\ history = [started |-> FALSE, authenticated |-> FALSE, requested |-> "none",
                  failed |-> FALSE, switches |-> 0]

\* The invoice module when its script has run: an empty cache (lastUpdate
\* null, written 0; Date.now() is never 0) and no call made
InvoicesLoaded ==
    /\ clock = 1
    /\ invoiceCache = [data |-> <<>>, lastUpdate |-> 0, filters |-> "{}"]
    /\ requests = <<>>
    /\ resolved = [op |-> "none"]

\* The outcome of a call: not made yet, a returned value, or an exception
NotCalled == [called |-> FALSE]

Returned(value) == [called |-> TRUE, threw |-> FALSE, value |-> value]

Thrown(error) == [called |-> TRUE, threw |-> TRUE, error |-> error]

\* Whether the comparator of pass 3 throws a TypeError: it reads
\* a.date.localeCompare, and which entries the sort passes as a is left to
\* the implementation.  With one entry it is never called; with two or more
\* it is called, and throws for sure when no entry has a date.
DateSortThrows(entries) ==
    LET missing == {i \in 1..Len(entries) : ~Has(entries[i], "EcritureDate")}
    IN  IF Len(entries) < 2 \/ missing = {} THEN {FALSE}
        ELSE IF missing = 1..Len(entries) THEN {TRUE}
        ELSE {TRUE, FALSE}

\* Mutant: warnings make the report invalid too
IsValid_NoWarnings(errors, warnings) == errors = <<>> /\ warnings = <<>>

IsValid(errors, warnings) == errors = <<>>

EmptyReport ==
    [valid    |-> FALSE,
     errors   |-> <<[type |-> "EMPTY_FEC", message |-> "Aucune ecriture a valider"]>>,
     warnings |-> <<>>]

FullReport(entries) ==
    LET errors   == EntryPass(entries) \o BalancePass(entries) \o DuplicatePass(entries)
        warnings == ChronologyPass(entries) \o VatPass(entries) \o JournalPass(entries)
    IN  [valid |-> IsValid(errors, warnings), errors |-> errors, warnings |-> warnings]

\* Mutant: the early return for an empty ledger is left out
validateFECCompliance_NoEmptyGuard(entries) ==
    {IF throws THEN Thrown("TypeError") ELSE Returned(FullReport(entries)) :
        throws \in DateSortThrows(entries)}

\* The outcomes of validateFECCompliance(entries): a report, or a TypeError
validateFECCompliance(entries) ==
    IF Len(entries) = 0 THEN {Returned(EmptyReport)}
    ELSE {IF throws THEN Thrown("TypeError") ELSE Returned(FullReport(entries)) :
             throws \in DateSortThrows(entries)}

-----------------------------------------------------------------------------
(* generateFECFile                                                         *)

IsAmountField(field) == field \in {"Debit", "Credit", "Montantdevise"}

\* The value written for one field of one entry
FormatField(entry, field) ==
    LET value == IF Truthy(entry, field) THEN entry[field] ELSE ""
        shown == IF IsAmountField(field)
                 THEN ReplaceFirst(ToFixed2(IF value = "" THEN Zero
                                            ELSE ParseFloat(value)), ".", ",")
                 ELSE value
    IN  RemoveAll(shown, "|")

FormatEntry(entry) ==
    Join([k \in 1..Len(FIELDS) |-> FormatField(entry, FIELDS[k])], "|")

\* Mutant: the guard on an empty ledger is left out, and the header is written
generateFECFile_HeaderOnly(entries) ==
    LET header == Join(FIELDS, "|")
        lines  == [i \in 1..Len(entries) |-> FormatEntry(entries[i])]
    IN  Returned(Join(<<header>> \o lines, "\r\n"))

generateFECFile(entries) ==
    IF Len(entries) = 0 THEN Thrown("Aucune ecriture a exporter")
    ELSE LET header == Join(FIELDS, "|")
             lines  == [i \in 1..Len(entries) |-> FormatEntry(entries[i])]
         IN  Returned(Join(<<header>> \o lines, "\r\n"))

-----------------------------------------------------------------------------
(* parseFECFile                                                            *)

\* Mutant: the comma is replaced in every field
ParseValues_AnyField(values) ==
    [field \in {FIELDS[k] : k \in 1..Len(FIELDS)} |->
        LET index == CHOOSE k \in 1..Len(FIELDS) : FIELDS[k] = field
        IN  ReplaceFirst(Trim(values[index]), ",", ".")]

\* The entry built from the columns of one data line
ParseValues(values) ==
    [field \in {FIELDS[k] : k \in 1..Len(FIELDS)} |->
        LET index == CHOOSE k \in 1..Len(FIELDS) : FIELDS[k] = field
            value == Trim(values[index])
        IN  IF IsAmountField(field) THEN ReplaceFirst(value, ",", ".") ELSE value]

\* Mutant: the blank lines are not filtered out
parseFECFile_KeepBlank(text_) ==
    IF Trim(text_) = "" THEN Thrown("Fichier FEC vide")
    ELSE LET lines == SplitLines(text_)
         IN  IF Len(lines) < 2 THEN Thrown("Fichier FEC invalide: moins de 2 lignes")
             ELSE IF Len(Split(lines[1], "|")) # Len(FIELDS)
                  THEN Thrown("Format FEC invalide: "
                                \o NatToString(Len(Split(lines[1], "|")))
                                \o " colonnes au lieu de " \o NatToString(Len(FIELDS)))
             ELSE LET rows == [i \in 1..(Len(lines) - 1) |-> Split(lines[i + 1], "|")]
                      kept == SelectSeq(rows, LAMBDA values : Len(values) = Len(FIELDS))
                  IN  Returned([i \in 1..Len(kept) |-> ParseValues(kept[i])])

\* Mutant: a data line of more than 18 columns is kept
parseFECFile_AtLeast(text_) ==
    IF Trim(text_) = "" THEN Thrown("Fichier FEC vide")
    ELSE LET lines == SelectSeq(SplitLines(text_), LAMBDA line : Trim(line) # "")
         IN  IF Len(lines) < 2 THEN Thrown("Fichier FEC invalide: moins de 2 lignes")
             ELSE IF Len(Split(lines[1], "|")) # Len(FIELDS)
                  THEN Thrown("Format FEC invalide: "
                                \o NatToString(Len(Split(lines[1], "|")))
                                \o " colonnes au lieu de " \o NatToString(Len(FIELDS)))
             ELSE LET rows == [i \in 1..(Len(lines) - 1) |-> Split(lines[i + 1], "|")]
                      kept == SelectSeq(rows, LAMBDA values : Len(values) >= Len(FIELDS))
                  IN  Returned([i \in 1..Len(kept) |-> ParseValues(kept[i])])

parseFECFile(text_) ==
    IF Trim(text_) = "" THEN Thrown("Fichier FEC vide")
    ELSE LET lines == SelectSeq(SplitLines(text_), LAMBDA line : Trim(line) # "")
         IN  IF Len(lines) < 2 THEN Thrown("Fichier FEC invalide: moins de 2 lignes")
             ELSE IF Len(Split(lines[1], "|")) # Len(FIELDS)
                  THEN Thrown("Format FEC invalide: "
                                \o NatToString(Len(Split(lines[1], "|")))
                                \o " colonnes au lieu de " \o NatToString(Len(FIELDS)))
             ELSE LET rows == [i \in 1..(Len(lines) - 1) |-> Split(lines[i + 1], "|")]
                      kept == SelectSeq(rows, LAMBDA values : Len(values) = Len(FIELDS))
                  IN  Returned([i \in 1..Len(kept) |-> ParseValues(kept[i])])

-----------------------------------------------------------------------------
(* getStatistics                                                           *)

\* JavaScript values of the three types dateRange can hold
Null == [type |-> "null"]

StringValue(s) == [type |-> "string", str |-> s]

NumberValue(a) == [type |-> "number", num |-> a]

\* ToNumber of a property of an entry, as Math.min and Math.max apply it:
\* NaN for undefined, 0 for a blank string, the value of a string of digits.
\* The inputs hold no sign, point, exponent or radix prefix.
ToNumber(entry, field) ==
    IF ~Has(entry, field) THEN NaN
    ELSE LET t == Trim(entry[field])
         IN  IF t = "" THEN Zero
             ELSE IF \A i \in 1..Len(t) : Char(t, i) \in Digits
                  THEN Num(FALSE, MagOfDigits(t \o "00", Len(t) + 2))
                  ELSE NaN

\* Math.min(...numbers) for at least one number: NaN if any of them is NaN
MathMin(numbers) ==
    IF \E i \in 1..Len(numbers) : numbers[i].nan THEN NaN
    ELSE numbers[CHOOSE i \in 1..Len(numbers) :
                     \A j \in 1..Len(numbers) : ~NumGT(numbers[i], numbers[j])]

\* Math.max(...numbers) for at least one number
MathMax(numbers) ==
    IF \E i \in 1..Len(numbers) : numbers[i].nan THEN NaN
    ELSE numbers[CHOOSE i \in 1..Len(numbers) :
                     \A j \in 1..Len(numbers) : ~NumGT(numbers[j], numbers[i])]

\* entries.reduce((sum, e) => sum + parseFloat(e[field] || 0), 0)
RECURSIVE Total(_, _, _)
Total(entries, field, n) ==
    IF n = 0 THEN Zero ELSE NumAdd(Total(entries, field, n - 1), Amount(entries[n], field))

\* The key countByField counts an entry under
CountKey(entry, field) == IF Truthy(entry, field) THEN entry[field] ELSE "Non renseigne"

countByField(entries, field) ==
    [value \in {CountKey(entries[i], field) : i \in 1..Len(entries)} |->
        Cardinality({i \in 1..Len(entries) : CountKey(entries[i], field) = value})]

\* FEC_CONFIG.PCG_CLASSES[classNum] || 'Classe inconnue'
ClassName(classNum) ==
    CASE classNum = "1" -> "Comptes de capitaux"
      [] classNum = "2" -> "Comptes d'immobilisations"
      [] classNum = "3" -> "Comptes de stocks"
      [] classNum = "4" -> "Comptes de tiers"
      [] classNum = "5" -> "Comptes financiers"
      [] classNum = "6" -> "Comptes de charges"
      [] classNum = "7" -> "Comptes de produits"
      [] classNum = "8" -> "Comptes speciaux"
      [] OTHER -> "Classe inconnue"

countAccountClasses(entries) ==
    LET counted == {i \in 1..Len(entries) : Truthy(entries[i], "CompteNum")}
    IN  [classNum \in {Char(entries[i].CompteNum, 1) : i \in counted} |->
            [name  |-> ClassName(classNum),
             count |-> Cardinality({i \in counted :
                                       Char(entries[i].CompteNum, 1) = classNum})]]

getStatistics(entries) ==
    LET dates == [i \in 1..Len(entries) |-> ToNumber(entries[i], "EcritureDate")]
    IN  [totalEntries     |-> Len(entries),
         validatedEntries |->
             Cardinality({i \in 1..Len(entries) :
                             Truthy(entries[i], "ValidDate")
                                 /\ Trim(entries[i].ValidDate) # ""}),
         totalDebit       |-> Total(entries, "Debit", Len(entries)),
         totalCredit      |-> Total(entries, "Credit", Len(entries)),
         dateRange        |->
             [start |-> IF Len(entries) > 0 THEN NumberValue(MathMin(dates)) ELSE Null,
              end   |-> IF Len(entries) > 0 THEN NumberValue(MathMax(dates)) ELSE Null],
         journalCounts    |-> countByField(entries, "JournalCode"),
         accountClasses   |-> countAccountClasses(entries)]

-----------------------------------------------------------------------------
(* Inputs                                                                  *)

\* Longest ledger handed to validateFECCompliance
MaxEntries == 3

\* Longest ledger handed to generateFECFile
MaxExport == 2

\* Most lines of a text handed to parseFECFile
MaxLines == 3

Entry(journal, num, date, account, piece, debit, credit, foreign) ==
    [JournalCode |-> journal, JournalLib |-> "Journal", EcritureNum |-> num,
     EcritureDate |-> date, CompteNum |-> account, CompteLib |-> "Compte",
     CompAuxNum |-> "", CompAuxLib |-> "", PieceRef |-> piece, PieceDate |-> date,
     EcritureLib |-> "Libelle", Debit |-> debit, Credit |-> credit,
     EcritureLet |-> "", DateLet |-> "", ValidDate |-> "",
     Montantdevise |-> foreign, Idevise |-> IF foreign = "" THEN "" ELSE "USD"]

Without(entry, fields) == [f \in (DOMAIN entry) \ fields |-> entry[f]]

Entries ==
    { Entry("VE", "1", "20240115", "707000", "F001", "0", "1000.00", ""),
      Entry("VE", "2", "20240115", "411000", "F001", "1000.00", "0.00", "12.50"),
      Entry("BQ", "1", "20240110", "512000", "F001", "999.99", "", ""),
      Entry("OD", "3", "20240101", "44566X", "F002", "0.00", "0.00", ""),
      Entry("OD", "2", "20240120", "9", "F002", "5.00", "5.00", ""),
      Entry("AC", "4", "20240105", "445710", "F003", "0.00", "200.00", ""),
      Entry("XX", "6", "20240106", "601000", "F003", "200.00", "0", ""),
      [Entry("AC", "5", "2024", "601000", "F003", "abc", "-3.00", "")
          EXCEPT !.EcritureLib = "Achat|divers "],
      Without(Entry("CA", "", "", "530000", "F002", "", "10000000000.00", ""),
              {"EcritureNum", "EcritureDate", "Debit"}) }

LedgersUpTo(max) == UNION {[1..n -> Entries] : n \in 0..max}

\* The entries handed to generateFECFile: those above, an entry whose label
\* holds a line break, and an entry without its optional properties
ExportEntries ==
    Entries \cup
    { [Entry("AC", "7", "20240107", "601000", "F004", "50.00", "0", "")
          EXCEPT !.EcritureLib = "Achat\ndivers"],
      Without(Entry("BQ", "8", "20240108", "512000", "F004", "0", "50.00", ""),
              {"CompAuxNum", "CompAuxLib", "ValidDate", "Montantdevise", "Idevise"}) }

\* The entries that probe the rules of validateEntry one by one: a purchase
\* of 100.00 that passes every rule, changed in one field or more
AuditGaps == {"none", "JournalLib empty", "JournalLib missing", "PieceDate missing"}

AuditDates == {"20240115", "2024011", "2024011A"}

AuditPieceDates == {"20240115", "15/01/24", ""}

AuditValidDates == {"", "20240116", "2024"}

AuditAccounts ==
    {"60", "601", "601000", "12345678901234567890", "123456789012345678901",
     "901000", "0", "X1234"}

AuditAmounts ==
    { <<"100.00", "0">>, <<"-50.00", "0">>, <<"0", "-50.00">>, <<"-5.00", "5.00">>,
      <<"9999999999.99", "0">>, <<"10000000000.00", "0">> }

AuditEntry(gap, date, pieceDate, validDate, account, amounts) ==
    LET entry == [Entry("AC", "1", date, account, "F001", amounts[1], amounts[2], "")
                     EXCEPT !.PieceDate = pieceDate, !.ValidDate = validDate]
    IN  IF gap = "JournalLib empty" THEN [entry EXCEPT !.JournalLib = ""]
        ELSE IF gap = "JournalLib missing" THEN Without(entry, {"JournalLib"})
        ELSE IF gap = "PieceDate missing" THEN Without(entry, {"PieceDate"})
        ELSE entry

AuditEntries ==
    { AuditEntry(gap, date, pieceDate, validDate, account, amounts) :
        gap \in AuditGaps, date \in AuditDates, pieceDate \in AuditPieceDates,
        validDate \in AuditValidDates, account \in AuditAccounts,
        amounts \in AuditAmounts }

\* The entries handed to getStatistics: among those above, entries with
\* and without a date, a journal and an account, and two validated entries
StatEntries ==
    { Entry("VE", "1", "20240115", "707000", "F001", "0", "1000.00", ""),
      Entry("BQ", "1", "20240110", "512000", "F001", "999.99", "", ""),
      Entry("OD", "2", "20240120", "9", "F002", "5.00", "5.00", ""),
      [Entry("VE", "9", "09991231", "701000", "F005", "10.00", "0", "")
          EXCEPT !.ValidDate = "20240201"],
      [Entry("", "10", "20240131", "", "F005", "0", "10.00", "")
          EXCEPT !.ValidDate = "  "],
      [Entry("AC", "5", "2024", "601000", "F003", "abc", "-3.00", "")
          EXCEPT !.EcritureLib = "Achat|divers "],
      Without(Entry("CA", "", "", "530000", "F002", "", "10000000000.00", ""),
              {"EcritureNum", "EcritureDate", "Debit"}) }

Header == Join(FIELDS, "|")

Lines ==
    { Header,
      "JournalCode|JournalLib|EcritureNum",
      "VE|Ventes|1|20240115|707000|Ventes|||F001|20240115|Vente marchandise|0|1000,00|||20240116||",
      "BQ|Banque|2|20240116| 512000 |Banque|||F002|20240116|Remise, cheque|500,00|0,00||||1,5|USD",
      "VE|Ventes|3|20240115|707000|Ventes|||F001|20240115|Vente|0|1000,00|||20240116|",
      "VE|Ventes|4|20240115|707000|Ventes|||F001|20240115|Vente|0|1000,00|||20240116|||",
      "",
      "  " }

Contents ==
    { Join(lines, eol) : lines \in UNION {[1..n -> Lines] : n \in 0..MaxLines},
                         eol \in {"\n", "\r\n"} }

\* Most pointages queued offline, and most times the page is loaded again
MaxPointages == 3

MaxReloads == 1

\* Most sync loops followed at once where nothing keeps a second one out
MaxLoops == 2

\* The last minute followed, and most calls awaiting a response at once
MaxClock == 6

MaxRequests == 2

\* The invoices of the backend, by id, with their status
InvoiceStatus == <<"paid", "draft", "paid">>

\* The filter sets handed to listInvoices, as JSON.stringify writes them
InvoiceFilters == {"{}", "{status:paid}", "{status:draft}"}

\* What GET /api/invoices answers for a filter set: the ids of the invoices
Matching(filters) ==
    SelectSeq(<<1, 2, 3>>,
              LAMBDA id : \/ filters = "{}"
                          \/ filters = "{status:paid}" /\ InvoiceStatus[id] = "paid"
                          \/ filters = "{status:draft}" /\ InvoiceStatus[id] = "draft")

\* Most clicks on a navigation item
MaxSwitches == 3

\* Three of the views of APP_CONFIG.views, and APP_CONFIG.defaultView
Views == {"dashboard", "factures", "rh"}

defaultView == "dashboard"

\* Origins of the page
Origins == {"https://numma.app", "http://localhost:8000"}

\* Most data lines of a file handed to importFEC
MaxImport == 2

\* A sale of 1000,00, its counterpart, a second sale and a short line
ImportLines ==
    { "VE|Ventes|1|20240115|707000|Ventes|||F001|20240115|Vente marchandise|0|1000,00|||20240116||",
      "VE|Ventes|2|20240115|411000|Clients|||F001|20240115|Vente marchandise|1000,00|0|||20240116||",
      "VE|Ventes|3|20240116|707000|Ventes|||F002|20240116|Vente marchandise|0,00|0,00|||20240116||",
      "VE|Ventes|4|20240115|707000|Ventes|||F001|20240115|Vente|0|1000,00|||20240116|" }

ImportContents ==
    {""} \cup
    { Join(<<Header>> \o lines, eol) :
        lines \in UNION {[1..n -> ImportLines] : n \in 0..MaxImport},
        eol \in {"\n", "\r\n"} }

-----------------------------------------------------------------------------
(* The calls                                                               *)

NoCall ==
    /\ report = NotCalled
    /\ again = NotCalled
    /\ text = NotCalled
    /\ parsed = NotCalled
    /\ reparsed = NotCalled
    /\ stats = NotCalled
    /\ importing = NoImport
    /\ PointagesLoaded
    /\ AppLoaded
    /\ InvoicesLoaded

\* FECModule.validateFECCompliance(ledger)
Validate ==
    /\ report' \in validateFECCompliance(ledger)
    /\ UNCHANGED <<ledger, content, again, text, parsed, reparsed, laterVars>>

\* Mutant: the validator sorts the caller's array itself, by entry number,
\* and the second call reads the sorted array
ValidateTwice_SortInPlace ==
    LET sorted == StableSort(ledger, LAMBDA a, b : StrLess(Show(a, "EcritureNum"),
                                                          Show(b, "EcritureNum")))
    IN  /\ report' \in validateFECCompliance(ledger)
        /\ again' \in validateFECCompliance(sorted)
        /\ ledger' = sorted
        /\ UNCHANGED <<content, text, parsed, reparsed, laterVars>>

\* FECModule.validateFECCompliance(ledger), twice in a row on the same array
ValidateTwice ==
    \E outcome \in [{"first", "second"} -> validateFECCompliance(ledger)] :
        /\ report' = outcome.first
        /\ again' = outcome.second
        /\ UNCHANGED <<ledger, content, text, parsed, reparsed, laterVars>>

\* FECModule.generateFECFile(ledger)
Generate ==
    /\ text' = generateFECFile(ledger)
    /\ UNCHANGED <<ledger, content, report, again, parsed, reparsed, laterVars>>

\* FECModule.parseFECFile(content)
Parse ==
    /\ parsed' = parseFECFile(content)
    /\ UNCHANGED <<ledger, content, report, again, text, reparsed, laterVars>>

\* FECModule.parseFECFile on the text generateFECFile returned
Reparse ==
    /\ text.called
    /\ ~text.threw
    /\ reparsed' = parseFECFile(text.value)
    /\ UNCHANGED <<ledger, content, report, again, text, parsed, laterVars>>

\* The variables of the calls of validateFECCompliance, generateFECFile and
\* parseFECFile
fecVars == <<ledger, content, report, again, text, parsed, reparsed>>

\* FECModule.getStatistics(ledger)
Statistics ==
    /\ stats' = Returned(getStatistics(ledger))
    /\ UNCHANGED <<fecVars, importing, pointageVars, appVars, cacheVars>>

\* importFEC(file) up to its first await: validateFile, then readFileAsText
ImportStart ==
    /\ importing.pc = "idle"
    /\ \E fileValid \in BOOLEAN :
          importing' = IF fileValid THEN [importing EXCEPT !.pc = "reading"]
                       ELSE [importing EXCEPT !.pc = "thrown"]
    /\ UNCHANGED <<fecVars, stats, pointageVars, appVars, cacheVars>>

\* readFileAsText settles; on a text, parseFECFile and validateFECCompliance
\* run, the warning is shown for an invalid report, and addCSRFHeader is awaited
ImportRead ==
    /\ importing.pc = "reading"
    /\ \E readOk \in BOOLEAN :
          IF ~readOk THEN importing' = ImportFailed(importing)
          ELSE LET entries == parseFECFile(content)
               IN  IF entries.threw \/ Len(entries.value) = 0
                   THEN importing' = ImportFailed(importing)
                   ELSE \E validation \in validateFECCompliance(entries.value) :
                           importing' =
                               IF validation.threw THEN ImportFailed(importing)
                               ELSE [importing EXCEPT
                                        !.pc = "headers",
                                        !.entries = entries.value,
                                        !.validation = validation,
                                        !.warned = ~validation.value.valid]
    /\ UNCHANGED <<fecVars, stats, pointageVars, appVars, cacheVars>>

\* addCSRFHeader resolves (it never rejects) and the POST to /api/fec/import
\* is sent
ImportPost ==
    /\ importing.pc = "headers"
    /\ importing' = [importing EXCEPT !.pc = "fetching", !.posted = importing.entries]
    /\ UNCHANGED <<fecVars, stats, pointageVars, appVars, cacheVars>>

\* fetch settles: a response that is ok, one that is not, or a network error
ImportResponse ==
    /\ importing.pc = "fetching"
    /\ \E response \in {"ok", "not ok", "rejected"} :
          importing' = IF response = "ok" THEN [importing EXCEPT !.pc = "json"]
                       ELSE ImportFailed(importing)
    /\ UNCHANGED <<fecVars, stats, pointageVars, appVars, cacheVars>>

\* response.json() settles; on a body the success is shown and returned
ImportResult ==
    /\ importing.pc = "json"
    /\ \E bodyOk \in BOOLEAN :
          importing' = IF bodyOk THEN [importing EXCEPT !.pc = "returned", !.success = TRUE]
                       ELSE ImportFailed(importing)
    /\ UNCHANGED <<fecVars, stats, pointageVars, appVars, cacheVars>>

\* POINTAGE_CONFIG.MAX_RETRY_ATTEMPTS
MAX_RETRY_ATTEMPTS == 3

\* savePendingPointages: JSON.stringify of the queue, each pointage with the
\* attempts its object holds at that moment
savePendingPointages(queue, objects) ==
    [i \in 1..Len(queue) |-> [id |-> queue[i], attempts |-> objects[queue[i]]]]

\* state.pendingPointages.filter(p => p.id !== id)
WithoutPointage(queue, id) == SelectSeq(queue, LAMBDA p : p # id)

\* A sync that starts although another one is running
syncPendingPointages_Unguarded(st, running) ==
    IF Len(st.pendingPointages) = 0 \/ Len(running) >= MaxLoops
    THEN [state |-> st, loops |-> running]
    ELSE [state |-> [st EXCEPT !.isSyncing = TRUE],
          loops |-> Append(running, [toSync |-> st.pendingPointages, pc |-> "headers"])]

\* syncPendingPointages up to its first await: nothing on an empty queue or
\* while a sync is running; otherwise isSyncing is set, the queue is copied
\* and the first pointage is handed to syncSinglePointage, which awaits
\* addCSRFHeader
syncPendingPointages(st, running) ==
    IF Len(st.pendingPointages) = 0 THEN [state |-> st, loops |-> running]
    ELSE IF st.isSyncing THEN [state |-> st, loops |-> running]
    ELSE [state |-> [st EXCEPT !.isSyncing = TRUE],
          loops |-> Append(running, [toSync |-> st.pendingPointages, pc |-> "headers"])]

\* The end of a loop that leaves isSyncing set
LoopFinished_StillSyncing(st, queue) == [st EXCEPT !.pendingPointages = queue]

\* The state after the last pointage of a loop: isSyncing is reset
LoopFinished(st, queue) == [st EXCEPT !.pendingPointages = queue, !.isSyncing = FALSE]

\* addPendingPointage that keeps a new pointage out of the queue while a sync
\* is running
AddPending_DroppedWhileSyncing ==
    /\ Len(pointages) < MaxPointages
    /\ LET id == Len(pointages) + 1
           queued == [state EXCEPT !.pendingPointages =
                         IF state.isSyncing THEN @ ELSE Append(@, id)]
           started == syncPendingPointages(queued, loops)
       IN  /\ pointages' = Append(pointages, 0)
           /\ backend' = [backend EXCEPT !.sends = Append(@, 0)]
           /\ storage' = savePendingPointages(queued.pendingPointages, pointages')
           /\ state' = started.state
           /\ loops' = started.loops
    /\ UNCHANGED <<fecVars, stats, importing, appVars, cacheVars, reloads>>

\* addPendingPointage (called by clockIn and clockOut when their request
\* fails): a new pointage with attempts 0 is pushed and saved, then a sync is
\* tried
AddPending ==
    /\ Len(pointages) < MaxPointages
    /\ LET id == Len(pointages) + 1
           queued == [state EXCEPT !.pendingPointages = Append(@, id)]
           started == syncPendingPointages(queued, loops)
       IN  /\ pointages' = Append(pointages, 0)
           /\ backend' = [backend EXCEPT !.sends = Append(@, 0)]
           /\ storage' = savePendingPointages(queued.pendingPointages, pointages')
           /\ state' = started.state
           /\ loops' = started.loops
    /\ UNCHANGED <<fecVars, stats, importing, appVars, cacheVars, reloads>>

\* The callback of the setInterval of startAutoSync
Tick ==
    /\ state.syncInterval
    /\ LET started == syncPendingPointages(state, loops)
       IN  state' = started.state /\ loops' = started.loops
    /\ UNCHANGED <<fecVars, stats, importing, appVars, cacheVars, pointages, storage, backend, reloads>>

\* PointageAPI.sync()
Sync ==
    /\ LET started == syncPendingPointages(state, loops)
       IN  state' = started.state /\ loops' = started.loops
    /\ UNCHANGED <<fecVars, stats, importing, appVars, cacheVars, pointages, storage, backend, reloads>>

\* startAutoSync: the old timer is cleared and a new one is set
StartAutoSync ==
    /\ state' = [state EXCEPT !.syncInterval = TRUE]
    /\ UNCHANGED <<fecVars, stats, importing, appVars, cacheVars, pointages, storage, loops, backend, reloads>>

\* stopAutoSync
StopAutoSync ==
    /\ state' = [state EXCEPT !.syncInterval = FALSE]
    /\ UNCHANGED <<fecVars, stats, importing, appVars, cacheVars, pointages, storage, loops, backend, reloads>>

\* cleanup: the timer is stopped and what is pending is synced
Cleanup ==
    /\ LET started == syncPendingPointages([state EXCEPT !.syncInterval = FALSE], loops)
       IN  state' = started.state /\ loops' = started.loops
    /\ UNCHANGED <<fecVars, stats, importing, appVars, cacheVars, pointages, storage, backend, reloads>>

\* syncSinglePointage after addCSRFHeader (which never rejects): the POST of
\* the pointage at the head of the loop is sent
SendRequest ==
    /\ \E k \in 1..Len(loops) :
          /\ loops[k].pc = "headers"
          /\ loops' = [loops EXCEPT ![k].pc = "fetching"]
          /\ backend' = [backend EXCEPT !.sends[Head(loops[k].toSync)] = @ + 1]
    /\ UNCHANGED <<fecVars, stats, importing, appVars, cacheVars, state, pointages, storage, reloads>>

\* The POST settles. An ok response: the pointage is filtered out of the
\* queue. Anything else: its attempts are incremented and at
\* MAX_RETRY_ATTEMPTS it is filtered out. Then the loop goes on to its next
\* pointage or, after the last one, saves the queue and resets isSyncing.
RequestCompletes ==
    /\ \E k \in 1..Len(loops), ok \in BOOLEAN :
          LET id == Head(loops[k].toSync)
              rest == Tail(loops[k].toSync)
              objects == IF ok THEN pointages ELSE [pointages EXCEPT ![id] = @ + 1]
              removed == ok \/ objects[id] >= MAX_RETRY_ATTEMPTS
              queue == IF removed THEN WithoutPointage(state.pendingPointages, id)
                       ELSE state.pendingPointages
          IN  /\ loops[k].pc = "fetching"
              /\ pointages' = objects
              /\ backend' = IF ok THEN [backend EXCEPT !.synced = @ \cup {id}] ELSE backend
              /\ IF rest = <<>>
                 THEN /\ storage' = savePendingPointages(queue, objects)
                      /\ state' = LoopFinished(state, queue)
                      /\ loops' = [i \in 1..(Len(loops) - 1) |->
                                      IF i < k THEN loops[i] ELSE loops[i + 1]]
                 ELSE /\ storage' = storage
                      /\ state' = [state EXCEPT !.pendingPointages = queue]
                      /\ loops' = [loops EXCEPT ![k] = [toSync |-> rest, pc |-> "headers"]]
    /\ UNCHANGED <<fecVars, stats, importing, appVars, cacheVars, reloads>>

\* The page is unloaded and loaded again: the suspended calls are gone, the
\* module starts with a fresh state, loadPendingPointages reads the saved
\* queue into new objects, and startAutoSync sets the timer
Reload ==
    /\ reloads < MaxReloads
    /\ reloads' = reloads + 1
    /\ state' = [syncInterval |-> TRUE,
                 pendingPointages |-> [i \in 1..Len(storage) |-> storage[i].id],
                 isSyncing |-> FALSE]
    /\ pointages' = [id \in 1..Len(pointages) |->
                        IF \E i \in 1..Len(storage) : storage[i].id = id
                        THEN (CHOOSE p \in {storage[i] : i \in 1..Len(storage)} : p.id = id).attempts
                        ELSE pointages[id]]
    /\ loops' = <<>>
    /\ UNCHANGED <<fecVars, stats, importing, appVars, cacheVars, storage, backend>>

\* secureRedirect(url): window.location.href is set only for a URL that starts
\* with "/", with "./" or with the origin of the page
secureRedirect(loc, url) ==
    IF StartsWith(url, "/") \/ StartsWith(url, "./") \/ StartsWith(url, loc.origin)
    THEN [loc EXCEPT !.href = url]
    ELSE loc

\* switchView(viewKey) for a known view, on the document d, up to the await in
\* loadView: the nav item and the title are set; a cached view is put in the
\* container and becomes the current view; otherwise the spinner is shown
\* and the fetch of the view is awaited
switchView(d, viewKey, init) ==
    LET nav == IF d.sidebar THEN [d EXCEPT !.activeNav = viewKey, !.title = viewKey] ELSE d
    IN  IF viewKey \in AppState.viewCache
        THEN /\ dom' = [nav EXCEPT !.container = [kind |-> "view", view |-> viewKey]]
             /\ AppState' = [AppState EXCEPT !.currentView = viewKey,
                                             !.initialized = @ \/ init]
             /\ calls' = calls
        ELSE /\ dom' = [nav EXCEPT !.container = [kind |-> "spinner", view |-> viewKey]]
             /\ AppState' = AppState
             /\ calls' = Append(calls, [view |-> viewKey, pc |-> "fetch", init |-> init])

\* initializeApp: checkAuthentication (getSecureToken clears an expired token);
\* without a token secureRedirect('login.html') and return; otherwise the
\* sidebar and the top bar are rendered and the default view is switched to
InitializeApp ==
    /\ ~history.started
    /\ session' = IF session = "expired" THEN "missing" ELSE session
    /\ IF session # "valid"
       THEN /\ location' = secureRedirect(location, "login.html")
            /\ history' = [history EXCEPT !.started = TRUE]
            /\ UNCHANGED <<AppState, dom, calls>>
       ELSE /\ location' = location
            /\ history' = [history EXCEPT !.started = TRUE, !.authenticated = TRUE,
                                          !.requested = defaultView]
            /\ switchView([dom EXCEPT !.sidebar = TRUE, !.title = defaultView],
                          defaultView, TRUE)
    /\ UNCHANGED <<fecVars, stats, importing, pointageVars, cacheVars>>

\* A click on the nav item of a view: switchView(viewKey)
SwitchView ==
    /\ dom.sidebar
    /\ history.switches < MaxSwitches
    /\ \E viewKey \in Views :
          /\ switchView(dom, viewKey, FALSE)
          /\ history' = [history EXCEPT !.requested = viewKey, !.switches = @ + 1]
    /\ UNCHANGED <<fecVars, stats, importing, pointageVars, cacheVars, session, location>>

\* The calls without the k-th
WithoutCall(k) == [i \in 1..(Len(calls) - 1) |-> IF i < k THEN calls[i] ELSE calls[i + 1]]

\* The catch blocks of loadView and switchView, then initializeApp after its
\* await: the error card is shown and the current view stays
LoadFailed(k) ==
    /\ dom' = [dom EXCEPT !.container = [kind |-> "error", view |-> calls[k].view]]
    /\ AppState' = [AppState EXCEPT !.initialized = @ \/ calls[k].init]
    /\ calls' = WithoutCall(k)
    /\ history' = [history EXCEPT !.failed = TRUE]

\* The fetch of a view settles
FetchCompletes ==
    /\ \E k \in 1..Len(calls), ok \in BOOLEAN :
          /\ calls[k].pc = "fetch"
          /\ IF ok
             THEN /\ calls' = [calls EXCEPT ![k].pc = "text"]
                  /\ UNCHANGED <<AppState, dom, history>>
             ELSE LoadFailed(k)
    /\ UNCHANGED <<fecVars, stats, importing, pointageVars, cacheVars, session, location>>

\* response.text() settles: the view is cached and put in the container,
\* then switchView sets the current view, then initializeApp sets initialized
TextCompletes ==
    /\ \E k \in 1..Len(calls), ok \in BOOLEAN :
          /\ calls[k].pc = "text"
          /\ IF ok
             THEN /\ dom' = [dom EXCEPT !.container = [kind |-> "view", view |-> calls[k].view]]
                  /\ AppState' = [AppState EXCEPT !.viewCache = @ \cup {calls[k].view},
                                                  !.currentView = calls[k].view,
                                                  !.initialized = @ \/ calls[k].init]
                  /\ calls' = WithoutCall(k)
                  /\ history' = history
             ELSE LoadFailed(k)
    /\ UNCHANGED <<fecVars, stats, importing, pointageVars, cacheVars, session, location>>

\* handleLogout, confirmed: the token and the view cache are cleared, then
\* secureRedirect('login.html')
Logout ==
    /\ dom.sidebar
    /\ session = "valid"
    /\ session' = "missing"
    /\ AppState' = [AppState EXCEPT !.viewCache = {}]
    /\ location' = secureRedirect(location, "login.html")
    /\ UNCHANGED <<fecVars, stats, importing, pointageVars, cacheVars, dom, calls, history>>

\* INVOICE_CONFIG.CACHE_EXPIRY: 300000 ms, in minutes
CACHE_EXPIRY == 5

\* isCacheValid at time now. With lastUpdate null the copy of sessionStorage
\* is looked for: it is written with the cache and removed with it, so none
\* is found
isCacheValid(cache, now) ==
    IF cache.lastUpdate = 0 THEN FALSE ELSE now - cache.lastUpdate < CACHE_EXPIRY

\* A call settled: what it was, where its value came from, and when and for
\* which filters the cache it came from was stored
Settled(op, arg, source, value) ==
    [op |-> op, arg |-> arg, source |-> source, value |-> value, at |-> clock,
     storedAt |-> invoiceCache.lastUpdate, storedFor |-> invoiceCache.filters]

\* handleAPIError(error, context) for 'list' and 'get': the cached data when
\* the cache is valid (all of it for a list, its first invoice or null for a
\* lookup), otherwise showError and the error is thrown again
handleAPIError(op, arg) ==
    IF isCacheValid(invoiceCache, clock)
    THEN Settled(op, arg, "fallback",
                 IF op = "list" THEN invoiceCache.data
                 ELSE IF Len(invoiceCache.data) > 0 THEN invoiceCache.data[1] ELSE 0)
    ELSE Settled(op, arg, "thrown", 0)

\* listInvoices(filters) up to its await: the cached data when the cache is
\* valid and was stored for the same filters, otherwise the request is sent
ListInvoices ==
    /\ \E filters \in InvoiceFilters :
          IF isCacheValid(invoiceCache, clock) /\ filters = invoiceCache.filters
          THEN /\ resolved' = Settled("list", filters, "cache", invoiceCache.data)
               /\ requests' = requests
          ELSE /\ Len(requests) < MaxRequests
               /\ requests' = Append(requests, [op |-> "list", arg |-> filters])
               /\ resolved' = resolved
    /\ UNCHANGED <<fecVars, stats, importing, pointageVars, appVars, clock, invoiceCache>>

\* getInvoice(id) up to its await: the cached invoice of that id when there is
\* one and the cache is valid, otherwise the request is sent
GetInvoice ==
    /\ \E id \in 1..Len(InvoiceStatus) :
          IF (\E i \in 1..Len(invoiceCache.data) : invoiceCache.data[i] = id)
             /\ isCacheValid(invoiceCache, clock)
          THEN /\ resolved' = Settled("get", id, "cache", id)
               /\ requests' = requests
          ELSE /\ Len(requests) < MaxRequests
               /\ requests' = Append(requests, [op |-> "get", arg |-> id])
               /\ resolved' = resolved
    /\ UNCHANGED <<fecVars, stats, importing, pointageVars, appVars, clock, invoiceCache>>

\* The response of a call arrives and its body is read. Ok: a list is cached
\* with its filters (setCachedInvoices) and returned, an invoice is returned.
\* Anything else: handleAPIError.
ResponseArrives ==
    /\ \E k \in 1..Len(requests), ok \in BOOLEAN :
          LET call == requests[k]
          IN  /\ requests' = [i \in 1..(Len(requests) - 1) |->
                                 IF i < k THEN requests[i] ELSE requests[i + 1]]
              /\ IF ~ok
                 THEN /\ resolved' = handleAPIError(call.op, call.arg)
                      /\ invoiceCache' = invoiceCache
                 ELSE IF call.op = "list"
                 THEN /\ invoiceCache' = [data |-> Matching(call.arg), lastUpdate |-> clock,
                                          filters |-> call.arg]
                      /\ resolved' = [Settled("list", call.arg, "network", Matching(call.arg))
                                        EXCEPT !.storedAt = clock, !.storedFor = call.arg]
                 ELSE /\ invoiceCache' = invoiceCache
                      /\ resolved' = Settled("get", call.arg, "network", call.arg)
    /\ UNCHANGED <<fecVars, stats, importing, pointageVars, appVars, clock>>

\* A minute passes
TimePasses ==
    /\ clock < MaxClock
    /\ clock' = clock + 1
    /\ UNCHANGED <<fecVars, stats, importing, pointageVars, appVars, invoiceCache, requests, resolved>>

\* clearCache (InvoiceAPI.cache.clear)
ClearCache ==
    /\ invoiceCache' = [data |-> <<>>, lastUpdate |-> 0, filters |-> "{}"]
    /\ UNCHANGED <<fecVars, stats, importing, pointageVars, appVars, clock, requests, resolved>>

\* The validator applied to the ledgers of at most MaxEntries entries
InitValidate == ledger \in LedgersUpTo(MaxEntries) /\ content = "" /\ NoCall

SpecValidate == InitValidate /\ [][Validate]_vars

\* The validator called twice on the ledgers of at most MaxEntries entries
SpecTwice == InitValidate /\ [][ValidateTwice]_vars

\* The statistics of the ledgers of at most MaxEntries entries
InitStatistics ==
    /\ ledger \in UNION {[1..n -> StatEntries] : n \in 0..MaxEntries}
    /\ content = ""
    /\ NoCall

SpecStatistics == InitStatistics /\ [][Statistics]_vars

\* The pointage module: pointages queued offline, syncs started by the timer,
\* by hand and by cleanup, the requests of a sync, and the page loaded again
InitPointage == ledger = <<>> /\ content = "" /\ NoCall

NextPointage ==
    \/ AddPending \/ Tick \/ Sync \/ StartAutoSync \/ StopAutoSync \/ Cleanup
    \/ SendRequest \/ RequestCompletes \/ Reload

SpecPointage == InitPointage /\ [][NextPointage]_vars

\* The pointage module on one page while the auto-sync timer runs, where the
\* timer fires again and again and every request is sent and answered
NextDrain == AddPending \/ Tick \/ SendRequest \/ RequestCompletes

SpecDrain ==
    /\ InitPointage /\ [][NextDrain]_vars
    /\ WF_vars(Tick) /\ WF_vars(SendRequest) /\ WF_vars(RequestCompletes)

\* The application controller started on a page of some origin, with a token
\* that is missing, expired or valid
InitApp ==
    /\ ledger = <<>> /\ content = ""
    /\ report = NotCalled /\ again = NotCalled /\ text = NotCalled
    /\ parsed = NotCalled /\ reparsed = NotCalled /\ stats = NotCalled
    /\ importing = NoImport
    /\ PointagesLoaded
    /\ InvoicesLoaded
    /\ session \in {"missing", "expired", "valid"}
    /\ \E origin \in Origins :
          location = [origin |-> origin, href |-> origin \o "/index.html"]
    /\ AppState = [currentView |-> "null", viewCache |-> {}, initialized |-> FALSE]
    /\ dom = [sidebar |-> FALSE, activeNav |-> "none", title |-> "none",
              container |-> [kind |-> "empty"]]
    /\ calls = <<>>
    /\ history = [started |-> FALSE, authenticated |-> FALSE, requested |-> "none",
                  failed |-> FALSE, switches |-> 0]

NextApp == InitializeApp \/ SwitchView \/ FetchCompletes \/ TextCompletes \/ Logout

SpecApp == InitApp /\ [][NextApp]_vars

\* The invoice module: lists and lookups called as time passes, their
\* responses, and the cache cleared
InitInvoices == ledger = <<>> /\ content = "" /\ NoCall

NextInvoices ==
    ListInvoices \/ GetInvoice \/ ResponseArrives \/ TimePasses \/ ClearCache

SpecInvoices == InitInvoices /\ [][NextInvoices]_vars

\* importFEC on the files of a header and at most MaxImport data lines
InitImport == ledger = <<>> /\ content \in ImportContents /\ NoCall

NextImport == ImportStart \/ ImportRead \/ ImportPost \/ ImportResponse \/ ImportResult

SpecImport == InitImport /\ [][NextImport]_vars

\* The validator applied to each of the ledgers of one probing entry
InitAudit == ledger \in {<<entry>> : entry \in AuditEntries} /\ content = "" /\ NoCall

SpecAudit == InitAudit /\ [][Validate]_vars

\* The serializer, and the parser on its output, for at most MaxExport entries
InitCodec ==
    /\ ledger \in UNION {[1..n -> ExportEntries] : n \in 0..MaxExport}
    /\ content = ""
    /\ NoCall

NextCodec == Generate \/ Reparse

SpecCodec == InitCodec /\ [][NextCodec]_vars

\* The parser applied to the texts of at most MaxLines lines
InitParse == ledger = <<>> /\ content \in Contents /\ NoCall

SpecParse == InitParse /\ [][Parse]_vars

-----------------------------------------------------------------------------
(* Properties: vocabulary                                                  *)

FieldSet == {FIELDS[k] : k \in 1..Len(FIELDS)}

\* Every entry carries its 18 fields, as strings
Textual(entries) == \A i \in 1..Len(entries) : DOMAIN entries[i] = FieldSet

ReportOf(outcome) == outcome.value

IssuesOfType(issues, type) == {k \in 1..Len(issues) : issues[k].type = type}

\* The issues of a type that carry the given entry reference
IssuesFor(issues, type, ref) ==
    {k \in IssuesOfType(issues, type) : "entry" \in DOMAIN issues[k] /\ issues[k].entry = ref}

RECURSIVE SumOf(_, _, _)
SumOf(entries, field, S) ==
    IF S = {} THEN Zero
    ELSE LET i == CHOOSE j \in S : TRUE
         IN  NumAdd(Amount(entries[i], field), SumOf(entries, field, S \ {i}))

PieceMembers(entries, p) == {i \in 1..Len(entries) : Show(entries[i], "PieceRef") = p}

\* |sum of Debit - sum of Credit| over the piece exceeds 0.01
PieceOff(entries, p) ==
    LET d == SumOf(entries, "Debit", PieceMembers(entries, p))
        c == SumOf(entries, "Credit", PieceMembers(entries, p))
    IN  NumGT(NumAbs(NumSub(d, c)), Num(FALSE, [hi |-> 0, lo |-> 1]))

BothPositive(entry) == NumGT(Amount(entry, "Debit"), Zero) /\ NumGT(Amount(entry, "Credit"), Zero)

BothZero(entry) == NumIsZero(Amount(entry, "Debit")) /\ NumIsZero(Amount(entry, "Credit"))

\* The lines of a text, as pairs <<a, b>>: the line holds the characters
\* a+1 .. b-1, between two line feeds (or an end of the text)
LineBreaks(s) == {0, Len(s) + 1} \cup {i \in 1..Len(s) : Char(s, i) = "\n"}

LineSpans(s) ==
    LET breaks == LineBreaks(s)
    IN  {<<a, b>> \in breaks \X breaks : a < b /\ \A m \in breaks : ~(a < m /\ m < b)}

Pipes(s, ab) == Cardinality({i \in (ab[1] + 1)..(ab[2] - 1) : Char(s, i) = "|"})

-----------------------------------------------------------------------------
(* Properties of validateFECCompliance, under SpecValidate                 *)

C3_MutualExclusivity ==
    (report.called /\ Textual(ledger)) =>
        \A i \in 1..Len(ledger) :
            /\ BothZero(ledger[i]) =>
                  /\ ~report.threw
                  /\ ~ReportOf(report).valid
                  /\ \E k \in IssuesFor(ReportOf(report).errors, "ENTRY_INVALID",
                                        EntryTag(ledger, i)) :
                        ReportOf(report).errors[k].message = BothZeroMessage
            /\ BothPositive(ledger[i]) =>
                  /\ ~report.threw
                  /\ ~ReportOf(report).valid
                  /\ \E k \in IssuesFor(ReportOf(report).errors, "ENTRY_INVALID",
                                        EntryTag(ledger, i)) :
                        ReportOf(report).errors[k].message = BothSetMessage

\* A validated ledger holding an entry of each kind
C3_Witness ==
    /\ report.called
    /\ Textual(ledger)
    /\ \E i, j \in 1..Len(ledger) : BothZero(ledger[i]) /\ BothPositive(ledger[j])

\* C4 (Validator totality): on a non-empty ledger of caller-supplied objects,
\* fields missing or not, validateFECCompliance does not throw and reports
\* each missing EcritureDate and EcritureNum as an ENTRY_INVALID error.
C4_Totality ==
    (report.called /\ Len(ledger) > 0) =>
        /\ ~report.threw
        /\ \A i \in 1..Len(ledger) :
              \A field \in {"EcritureDate", "EcritureNum"} :
                  ~Has(ledger[i], field) =>
                      \E k \in IssuesFor(ReportOf(report).errors, "ENTRY_INVALID",
                                         EntryTag(ledger, i)) :
                          ReportOf(report).errors[k].message
                              = "Champ requis manquant: " \o field

\* C5 (Chronology): each position of the ledger whose EcritureDate is smaller
\* than the date before it has a CHRONOLOGY_WARNING naming the two entries,
\* and a ledger in non-decreasing date order has none.
C5_Chronology ==
    (report.called /\ Textual(ledger)) =>
        /\ ~report.threw
        /\ \A i \in 2..Len(ledger) :
              StrLess(ledger[i].EcritureDate, ledger[i - 1].EcritureDate) =>
                  \E k \in IssuesOfType(ReportOf(report).warnings, "CHRONOLOGY_WARNING") :
                      ReportOf(report).warnings[k].message
                          = "Ordre chronologique non respecte: "
                              \o ledger[i].EcritureNum \o " (" \o ledger[i].EcritureDate
                              \o ") apres " \o ledger[i - 1].EcritureNum \o " ("
                              \o ledger[i - 1].EcritureDate \o ")"
        /\ (\A i \in 2..Len(ledger) :
               ~StrLess(ledger[i].EcritureDate, ledger[i - 1].EcritureDate))
              => IssuesOfType(ReportOf(report).warnings, "CHRONOLOGY_WARNING") = {}

\* C6 (Uniqueness): the report holds as many DUPLICATE_NUM errors as the sum,
\* over the distinct EcritureNum values, of (occurrences - 1).
C6_Uniqueness ==
    (report.called /\ Textual(ledger)) =>
        /\ ~report.threw
        /\ Cardinality(IssuesOfType(ReportOf(report).errors, "DUPLICATE_NUM"))
              = Len(ledger) - Cardinality({ledger[i].EcritureNum : i \in 1..Len(ledger)})

\* A number occurring three times, not next to each other twice, reported twice
C6_Witness ==
    /\ report.called
    /\ Textual(ledger)
    /\ Len(ledger) = 3
    /\ ledger[1].EcritureNum = ledger[2].EcritureNum
    /\ ledger[2].EcritureNum = ledger[3].EcritureNum
    /\ Cardinality(IssuesOfType(ReportOf(report).errors, "DUPLICATE_NUM")) = 2

\* C7 (Validity flag): a returned report is valid exactly when its errors
\* list is empty, whatever its warnings.
C7_ValidityFlag ==
    (report.called /\ ~report.threw) =>
        (ReportOf(report).valid <=> ReportOf(report).errors = <<>>)

\* A valid report that carries warnings
C7_Witness ==
    /\ report.called
    /\ ~report.threw
    /\ ReportOf(report).valid
    /\ IssuesOfType(ReportOf(report).warnings, "UNKNOWN_JOURNAL") # {}
    /\ IssuesOfType(ReportOf(report).warnings, "VAT_WARNING") # {}

\* C10 (Empty ledger), as claimed: the one error is of kind EMPTY_LEDGER.
C10_EmptyLedgerKind ==
    (report.called /\ Len(ledger) = 0) =>
        /\ ~report.threw
        /\ ~ReportOf(report).valid
        /\ Len(ReportOf(report).errors) = 1
        /\ ReportOf(report).errors[1].type = "EMPTY_LEDGER"
        /\ ReportOf(report).warnings = <<>>

\* C10 (Empty ledger), amended: the empty ledger yields valid = false, one
\* error, of type EMPTY_FEC, and no warning.
C10_EmptyLedger ==
    (report.called /\ Len(ledger) = 0) =>
        /\ ~report.threw
        /\ ~ReportOf(report).valid
        /\ Len(ReportOf(report).errors) = 1
        /\ ReportOf(report).errors[1].type = "EMPTY_FEC"
        /\ ReportOf(report).warnings = <<>>

\* The empty ledger, validated
C10_Witness == report.called /\ Len(ledger) = 0

\* The VAT warnings of the report that name entry i
VatIssues(i) ==
    {k \in IssuesFor(ReportOf(report).warnings, "VAT_WARNING", ledger[i].EcritureNum) :
        ReportOf(report).warnings[k].message
            = "Compte TVA " \o ledger[i].CompteNum \o " avec montant nul"}

VatAccount(account) == Len(account) >= 3 /\ SubSeq(account, 1, 3) = "445"

\* C18 (VAT rule): on a ledger of entries as parseFECFile returns them, an
\* entry has a VAT_WARNING exactly when its CompteNum starts with 445 and its
\* debit and its credit are both zero; no VAT_WARNING is among the errors.
C18_VatRule ==
    (report.called /\ Textual(ledger)) =>
        /\ ~report.threw
        /\ IssuesOfType(ReportOf(report).errors, "VAT_WARNING") = {}
        /\ \A i \in 1..Len(ledger) :
              VatIssues(i) # {} <=> (VatAccount(ledger[i].CompteNum) /\ BothZero(ledger[i]))

\* What the code does warn about: a VAT account whose first non-empty
\* amount, the debit before the credit, is zero
C18_VatRuleOnFirstAmount ==
    (report.called /\ Textual(ledger)) =>
        /\ ~report.threw
        /\ IssuesOfType(ReportOf(report).errors, "VAT_WARNING") = {}
        /\ \A i \in 1..Len(ledger) :
              VatIssues(i) # {} <=>
                  /\ VatAccount(ledger[i].CompteNum)
                  /\ NumIsZero(IF ledger[i].Debit # "" THEN Amount(ledger[i], "Debit")
                                ELSE Amount(ledger[i], "Credit"))

-----------------------------------------------------------------------------
(* Properties of the per-entry rules, under SpecAudit                      *)

\* The ENTRY_INVALID errors of the report that carry the reference of entry i
EntryIssues(i) == IssuesFor(ReportOf(report).errors, "ENTRY_INVALID", EntryTag(ledger, i))

Blank(entry, field) == ~Has(entry, field) \/ entry[field] = ""

RequiredByCatalog ==
    {"JournalCode", "JournalLib", "EcritureNum", "EcritureDate", "CompteNum",
     "CompteLib", "PieceRef", "PieceDate", "EcritureLib"}

\* C14 (Required fields): an entry with an empty or missing required field
\* (journal code and label, entry number and date, account number and label,
\* document reference and date, entry label) makes the report invalid, with
\* an ENTRY_INVALID error for that entry.
C14_RequiredFields ==
    report.called =>
        \A i \in 1..Len(ledger) :
            (\E f \in RequiredByCatalog : Blank(ledger[i], f)) =>
                /\ ~report.threw
                /\ ~ReportOf(report).valid
                /\ EntryIssues(i) # {}

\* What the code does require: the seven fields of its own list
C14_RequiredByCode ==
    report.called =>
        \A i \in 1..Len(ledger) :
            (\E f \in RequiredByCatalog \ {"JournalLib", "PieceDate"} : Blank(ledger[i], f)) =>
                /\ ~report.threw
                /\ ~ReportOf(report).valid
                /\ EntryIssues(i) # {}

Negative(a) == ~a.nan /\ a.neg

\* 9999999999.99, in cents
MaxMagnitude == Num(FALSE, [hi |-> 9999, lo |-> 99999999])

OutOfBounds(entry) ==
    \E f \in {"Debit", "Credit"} :
        Negative(Amount(entry, f)) \/ NumGT(Amount(entry, f), MaxMagnitude)

\* C15 (Amount bounds): an entry whose debit or credit is negative or above
\* 9999999999.99 makes the report invalid, with an ENTRY_INVALID error for
\* that entry; an entry without such an error has both amounts within
\* [0, 9999999999.99] and exactly one of them non-zero.
C15_AmountBounds ==
    report.called =>
        \A i \in 1..Len(ledger) :
            /\ OutOfBounds(ledger[i]) =>
                  /\ ~report.threw
                  /\ ~ReportOf(report).valid
                  /\ EntryIssues(i) # {}
            /\ (~report.threw /\ EntryIssues(i) = {}) =>
                  /\ ~OutOfBounds(ledger[i])
                  /\ NumIsZero(Amount(ledger[i], "Debit"))
                        # NumIsZero(Amount(ledger[i], "Credit"))

\* What the code does bound: the amounts from above only
C15_UpperBound ==
    report.called =>
        \A i \in 1..Len(ledger) :
            (\E f \in {"Debit", "Credit"} : NumGT(Amount(ledger[i], f), MaxMagnitude)) =>
                /\ ~report.threw
                /\ ~ReportOf(report).valid
                /\ EntryIssues(i) # {}

EightDigits(s) ==
    Len(s) = 8 /\ \A k \in 1..Len(s) : Char(s, k) \in {"0", "1", "2", "3", "4", "5", "6", "7", "8", "9"}

\* C16 (Date formats): an entry whose EcritureDate is not 8 digits, or whose
\* PieceDate or ValidDate is present, non-empty and not 8 digits, has an
\* ENTRY_INVALID error.
C16_DateFormats ==
    report.called =>
        \A i \in 1..Len(ledger) :
            (\/ Blank(ledger[i], "EcritureDate")
             \/ ~EightDigits(ledger[i].EcritureDate)
             \/ \E f \in {"PieceDate", "ValidDate"} :
                    ~Blank(ledger[i], f) /\ ~EightDigits(ledger[i][f])) =>
                /\ ~report.threw
                /\ EntryIssues(i) # {}

\* What the code does check: the format of EcritureDate
C16_EntryDateFormat ==
    report.called =>
        \A i \in 1..Len(ledger) :
            (Blank(ledger[i], "EcritureDate") \/ ~EightDigits(ledger[i].EcritureDate)) =>
                /\ ~report.threw
                /\ EntryIssues(i) # {}

\* The errors of entry i about its account number
AccountIssues(i) ==
    {k \in EntryIssues(i) :
        ReportOf(report).errors[k].message
            \in {"Numero de compte invalide: " \o ledger[i].CompteNum,
                 "Classe de compte invalide: " \o Char(ledger[i].CompteNum, 1)}}

BadAccount(account) ==
    \/ Len(account) < 3
    \/ Len(account) > 20
    \/ Char(account, 1) \notin {"1", "2", "3", "4", "5", "6", "7", "8"}

\* C17 (Account number): an entry with a non-empty CompteNum has an error
\* about its account number exactly when the length of the number is outside
\* [3,20] or its first character is not one of '1'..'8'.
C17_AccountNumber ==
    (report.called /\ ~report.threw) =>
        \A i \in 1..Len(ledger) :
            ~Blank(ledger[i], "CompteNum") =>
                (AccountIssues(i) # {} <=> BadAccount(ledger[i].CompteNum))

\* An account number of class 1 rejected for its 21 characters alone
C17_Witness ==
    /\ report.called
    /\ ~report.threw
    /\ Len(ledger) = 1
    /\ Len(ledger[1].CompteNum) = 21
    /\ Char(ledger[1].CompteNum, 1) = "1"
    /\ Cardinality(AccountIssues(1)) = 1

\* Account numbers of 3 and of 20 characters accepted
C17_WitnessAccepted ==
    /\ report.called
    /\ ~report.threw
    /\ Len(ledger) = 1
    /\ Len(ledger[1].CompteNum) \in {3, 20}
    /\ AccountIssues(1) = {}

-----------------------------------------------------------------------------
(* Properties of generateFECFile and parseFECFile, under SpecCodec         *)

Contains(s, c) == \E i \in 1..Len(s) : Char(s, i) = c

\* A decimal amount: digits, with at most one comma or dot followed by digits
IsDecimal(s) ==
    /\ s # ""
    /\ \A i \in 1..Len(s) : Char(s, i) \in Digits \cup {".", ","}
    /\ Cardinality({i \in 1..Len(s) : Char(s, i) \in {".", ","}}) <= 1
    /\ Char(s, 1) \in Digits
    /\ Char(s, Len(s)) \in Digits

\* 18 string fields without '|', line break or surrounding white space; the
\* required fields filled in, the amounts decimal, the optional fields and
\* the foreign amount possibly empty
WellFormed(entry) ==
    /\ DOMAIN entry = FieldSet
    /\ \A f \in FieldSet :
          /\ ~Contains(entry[f], "|")
          /\ ~Contains(entry[f], "\n")
          /\ ~Contains(entry[f], "\r")
          /\ Trim(entry[f]) = entry[f]
    /\ \A f \in {"JournalCode", "JournalLib", "EcritureNum", "EcritureDate", "CompteNum",
                 "CompteLib", "PieceRef", "PieceDate", "EcritureLib"} : entry[f] # ""
    /\ IsDecimal(entry.Debit)
    /\ IsDecimal(entry.Credit)
    /\ entry.Montantdevise = "" \/ IsDecimal(entry.Montantdevise)

\* Two values of an amount field that differ by the comma/dot conversion or
\* by the writing of the same number
SameAmount(a, b) ==
    \/ ReplaceFirst(a, ",", ".") = ReplaceFirst(b, ",", ".")
    \/ /\ IsDecimal(a)
       /\ IsDecimal(b)
       /\ ParseFloat(ReplaceFirst(a, ",", ".")) = ParseFloat(ReplaceFirst(b, ",", "."))

SameField(field, a, b) == IF IsAmountField(field) THEN SameAmount(a, b) ELSE a = b

\* C1 (Round-trip): parsing the text generated from a non-empty ledger of
\* well-formed entries returns the entries of the ledger, in order and field
\* by field, amounts compared modulo the comma/dot conversion.
C1_RoundTrip ==
    (/\ reparsed.called
     /\ Len(ledger) > 0
     /\ \A i \in 1..Len(ledger) : WellFormed(ledger[i])) =>
        /\ ~reparsed.threw
        /\ Len(reparsed.value) = Len(ledger)
        /\ \A i \in 1..Len(ledger) :
              \A f \in FieldSet : SameField(f, ledger[i][f], reparsed.value[i][f])

\* What the code does keep in a round trip: every field but an empty foreign
\* amount, which comes back as 0.00
C1_RoundTripButForeign ==
    (/\ reparsed.called
     /\ Len(ledger) > 0
     /\ \A i \in 1..Len(ledger) : WellFormed(ledger[i])) =>
        /\ ~reparsed.threw
        /\ Len(reparsed.value) = Len(ledger)
        /\ \A i \in 1..Len(ledger) :
              \A f \in FieldSet :
                  \/ SameField(f, ledger[i][f], reparsed.value[i][f])
                  \/ /\ f = "Montantdevise"
                     /\ ledger[i][f] = ""
                     /\ reparsed.value[i][f] = "0.00"

\* The positions of the CRLF pairs of a text
CrlfAt(s) == {i \in 1..(Len(s) - 1) : Char(s, i) = "\r" /\ Char(s, i + 1) = "\n"}

\* The positions of the line feeds that no carriage return precedes
BareLfAt(s) == {i \in 1..Len(s) : Char(s, i) = "\n" /\ (i = 1 \/ Char(s, i - 1) # "\r")}

CatalogLine ==
    "JournalCode|JournalLib|EcritureNum|EcritureDate|CompteNum|CompteLib|CompAuxNum|CompAuxLib|PieceRef|PieceDate|EcritureLib|Debit|Credit|EcritureLet|DateLet|ValidDate|Montantdevise|Idevise"

\* |L| + 1 records of 18 fields separated by CRLF, the catalog line first
Structured(s, n) ==
    /\ Cardinality(CrlfAt(s)) = n
    /\ BareLfAt(s) = {}
    /\ Len(s) > Len(CatalogLine)
    /\ SubSeq(s, 1, Len(CatalogLine) + 1) = CatalogLine \o "\r"
    /\ \A ab \in LineSpans(s) : Pipes(s, ab) = 17

HasLineBreak(entry) ==
    \E f \in DOMAIN entry : Contains(entry[f], "\n") \/ Contains(entry[f], "\r")

\* C11 (Serializer structure): the text generated from a non-empty ledger,
\* whatever its field values, is |L| + 1 records separated by CRLF and by no
\* bare LF, the first one the 18 catalog names, each of 18 fields.
C11_Structure ==
    (text.called /\ Len(ledger) > 0) =>
        /\ ~text.threw
        /\ Structured(text.value, Len(ledger))

\* What the code does keep: the structure, for values without a line break
\* ('|' in a value included)
C11_StructureOfSingleLineValues ==
    (/\ text.called
     /\ Len(ledger) > 0
     /\ \A i \in 1..Len(ledger) : ~HasLineBreak(ledger[i])) =>
        /\ ~text.threw
        /\ Structured(text.value, Len(ledger))

\* C12 (Serializer on empty input): generateFECFile of a ledger without
\* entries fails with an error and returns no text.
C12_EmptyExport ==
    (text.called /\ Len(ledger) = 0) =>
        /\ text.threw
        /\ "value" \notin DOMAIN text

\* The empty ledger, handed to generateFECFile
C12_Witness == text.called /\ Len(ledger) = 0 /\ text.threw

\* The value written at the position of a field in the record of entry i
Written(s, i, field) ==
    Split(SplitLines(s)[i + 1], "|")[CHOOSE k \in 1..Len(FIELDS) : FIELDS[k] = field]

\* C13 (Missing fields serialize as empty): each of the 18 fields that an
\* entry does not carry, the optional ones included, is written as the empty
\* string at its position in the record of the entry.
C13_MissingAsEmpty ==
    (/\ text.called
     /\ Len(ledger) > 0
     /\ \A i \in 1..Len(ledger) : ~HasLineBreak(ledger[i])) =>
        /\ ~text.threw
        /\ \A i \in 1..Len(ledger) :
              \A f \in FieldSet :
                  ~Has(ledger[i], f) => Written(text.value, i, f) = ""

\* What the code does: a missing field is written as the empty string,
\* except Debit, Credit and Montantdevise, written as 0,00
C13_MissingAsEmptyOrZero ==
    (/\ text.called
     /\ Len(ledger) > 0
     /\ \A i \in 1..Len(ledger) : ~HasLineBreak(ledger[i])) =>
        /\ ~text.threw
        /\ \A i \in 1..Len(ledger) :
              \A f \in FieldSet :
                  ~Has(ledger[i], f) =>
                      Written(text.value, i, f)
                          = IF f \in {"Debit", "Credit", "Montantdevise"} THEN "0,00" ELSE ""

-----------------------------------------------------------------------------
(* Properties of parseFECFile, under SpecParse                             *)

\* The non-blank lines
NonBlankSpans(s) ==
    {ab \in LineSpans(s) : \E i \in (ab[1] + 1)..(ab[2] - 1) : ~IsSpace(Char(s, i))}

\* The non-blank lines, in the order of the text
NonBlankLines(s) ==
    LET spans == NonBlankSpans(s)
    IN  [k \in 1..Cardinality(spans) |->
            CHOOSE ab \in spans : Cardinality({cd \in spans : cd[1] <= ab[1]}) = k]

\* The non-blank data lines of 18 columns, in the order of the text
GoodSpans(s) ==
    LET lines == NonBlankLines(s)
    IN  SelectSeq([k \in 1..(Len(lines) - 1) |-> lines[k + 1]],
                  LAMBDA ab : Pipes(s, ab) = 17)

ParserMustThrow(s) ==
    LET lines == NonBlankLines(s)
    IN  \/ \A i \in 1..Len(s) : IsSpace(Char(s, i))
        \/ Len(lines) < 2
        \/ Pipes(s, lines[1]) # 17

\* C8 (Parser failure conditions): parseFECFile throws exactly when the text
\* is empty or blank, has fewer than 2 non-blank lines, or has a first
\* non-blank line that is not of 18 columns; otherwise it returns a ledger.
C8_ParserFailure ==
    parsed.called => (parsed.threw <=> ParserMustThrow(content))

\* A text of a header and data lines thrown out for its header's columns
C8_Witness ==
    /\ parsed.called
    /\ parsed.threw
    /\ Len(NonBlankLines(content)) >= 2
    /\ Pipes(content, NonBlankLines(content)[1]) # 17

\* A text whose data lines are all malformed, parsed to an empty ledger
C8_WitnessMalformed ==
    /\ parsed.called
    /\ ~parsed.threw
    /\ parsed.value = <<>>

\* C9 (Line-skip tolerance): under a header of 18 columns, parseFECFile
\* returns one entry per non-blank data line of 18 columns, in the order of
\* the lines, and skips the other data lines.
C9_LineSkip ==
    (parsed.called /\ ~ParserMustThrow(content)) =>
        LET good == GoodSpans(content)
        IN  /\ ~parsed.threw
            /\ Len(parsed.value) = Len(good)
            /\ \A k \in 1..Len(parsed.value) :
                  LET ab     == good[k]
                      column == Split(SubSeq(content, ab[1] + 1, ab[2] - 1), "|")
                  IN  \A c \in {1, 2, 3, 4, 9, 11} :
                          parsed.value[k][FIELDS[c]] = Trim(column[c])

\* A data line of 17 columns skipped before a line that is kept: one entry
\* fewer than data lines
C9_Witness ==
    /\ parsed.called
    /\ ~parsed.threw
    /\ Len(NonBlankLines(content)) = 3
    /\ Pipes(content, NonBlankLines(content)[2]) = 16
    /\ Pipes(content, NonBlankLines(content)[3]) = 17
    /\ Len(parsed.value) = 1

\* A decimal in the French writing: digits, a comma, digits
CommaDecimal(s) ==
    /\ Cardinality({i \in 1..Len(s) : Char(s, i) = ","}) = 1
    /\ \A i \in 1..Len(s) : Char(s, i) \in {",", "0", "1", "2", "3", "4", "5", "6", "7", "8", "9"}
    /\ Char(s, 1) # ","
    /\ Char(s, Len(s)) # ","

AllZeros(s) == \A i \in 1..Len(s) : Char(s, i) \in {",", "0"}

\* The columns of a line of the text
Columns(s, ab) == Split(SubSeq(s, ab[1] + 1, ab[2] - 1), "|")

-----------------------------------------------------------------------------
(* Properties of getStatistics, under SpecStatistics                       *)

\* The smallest and the largest of the EcritureDate strings of the ledger
DateBound(entries, least) ==
    LET dates == {Show(entries[i], "EcritureDate") : i \in 1..Len(entries)}
    IN  CHOOSE d \in dates :
            \A e \in dates : IF least THEN ~StrLess(e, d) ELSE ~StrLess(d, e)

RECURSIVE SumOfCounts(_, _)
SumOfCounts(counts, keys) ==
    IF keys = {} THEN 0
    ELSE LET k == CHOOSE x \in keys : TRUE
         IN  counts[k] + SumOfCounts(counts, keys \ {k})

\* The counts of a returned statistics object are those of the ledger
CountsRight(value) ==
    /\ value.totalEntries = Len(ledger)
    /\ value.validatedEntries
          = Cardinality({i \in 1..Len(ledger) :
                            ~Blank(ledger[i], "ValidDate")
                                /\ \E k \in 1..Len(ledger[i].ValidDate) :
                                       ~IsSpace(Char(ledger[i].ValidDate, k))})
    /\ SumOfCounts(value.journalCounts, DOMAIN value.journalCounts) = Len(ledger)
    /\ \A i \in 1..Len(ledger) :
          ~Blank(ledger[i], "JournalCode") =>
              /\ ledger[i].JournalCode \in DOMAIN value.journalCounts
              /\ value.journalCounts[ledger[i].JournalCode]
                    = Cardinality({j \in 1..Len(ledger) :
                                      ~Blank(ledger[j], "JournalCode")
                                          /\ ledger[j].JournalCode = ledger[i].JournalCode})
    /\ \A i \in 1..Len(ledger) :
          ~Blank(ledger[i], "CompteNum") =>
              LET k == Char(ledger[i].CompteNum, 1)
              IN  /\ k \in DOMAIN value.accountClasses
                  /\ value.accountClasses[k].count
                        = Cardinality({j \in 1..Len(ledger) :
                                          ~Blank(ledger[j], "CompteNum")
                                              /\ Char(ledger[j].CompteNum, 1) = k})

\* C21 (Statistics): getStatistics returns the number of entries, the number
\* of entries with a non-blank ValidDate, the counts by journal code (summing
\* to |L|) and by account class, and as dateRange the smallest and the
\* largest EcritureDate as 8-digit strings, null for the empty ledger.
C21_Statistics ==
    stats.called =>
        /\ ~stats.threw
        /\ CountsRight(stats.value)
        /\ stats.value.dateRange
              = IF Len(ledger) = 0 THEN [start |-> Null, end |-> Null]
                ELSE [start |-> StringValue(DateBound(ledger, TRUE)),
                      end   |-> StringValue(DateBound(ledger, FALSE))]

\* What the code does return: the counts, and as dateRange two numbers
C21_StatisticsButDates ==
    stats.called =>
        /\ ~stats.threw
        /\ CountsRight(stats.value)
        /\ stats.value.dateRange.start.type = IF Len(ledger) = 0 THEN "null" ELSE "number"
        /\ stats.value.dateRange.end.type = IF Len(ledger) = 0 THEN "null" ELSE "number"

-----------------------------------------------------------------------------
(* Properties of importFEC, under SpecImport                               *)

\* C22 (Errors block submission): when validateFECCompliance of the parsed
\* entries reports valid = false, the entries are not POSTed to
\* /api/fec/import and the import does not report success.
C22_ErrorsBlock ==
    (importing.validation.called /\ ~importing.validation.value.valid) =>
        /\ importing.posted = <<>>
        /\ ~importing.success

\* What the code does: an invalid report is shown as a warning, and every
\* file that parses to at least one entry is POSTed
C22_ErrorsWarn ==
    /\ (importing.validation.called /\ ~importing.validation.value.valid) => importing.warned
    /\ importing.pc \in {"fetching", "json", "returned"} =>
          importing.posted = importing.entries /\ importing.entries # <<>>
    /\ importing.success => importing.pc = "returned"

\* An import reported as a success after a valid report
C22_WitnessValid ==
    /\ importing.success
    /\ importing.validation.value.valid
    /\ Len(importing.posted) = 2

-----------------------------------------------------------------------------
(* Properties of the pointage module, under SpecPointage and SpecDrain     *)

\* The pointages created so far, and those in the queue and in the saved copy
Created == 1..Len(pointages)

Pending == {state.pendingPointages[i] : i \in 1..Len(state.pendingPointages)}

Saved == {storage[i].id : i \in 1..Len(storage)}

\* The bound and the rule of removal for one pointage
RetryRule(id) ==
    /\ backend.sends[id] <= MAX_RETRY_ATTEMPTS
    /\ id \in Pending <=> (id \notin backend.synced /\ pointages[id] < MAX_RETRY_ATTEMPTS)

\* C23 (Bounded retry of offline pointages): each pointage is sent to the
\* backend at most MAX_RETRY_ATTEMPTS times in total, it is out of the queue
\* exactly when one of its sends succeeded or its third send failed, and it
\* is in the queue with attempts < 3 otherwise.
C23_BoundedRetry == \A id \in Created : RetryRule(id)

\* What the code keeps: the bound and the rule of removal hold as long as the
\* page is not loaded again; and a pointage in the queue always has fewer than
\* MAX_RETRY_ATTEMPTS attempts on its object
C23_BoundedRetryOnOnePage ==
    /\ reloads = 0 => \A id \in Created : RetryRule(id)
    /\ \A id \in Pending : pointages[id] < MAX_RETRY_ATTEMPTS

\* C24 (Single sync in flight): at most one sync loop is executing at any
\* time, so no pointage is being sent by two loops, and isSyncing is true
\* exactly while a loop is running: it is reset when the loop finishes,
\* whatever its sends returned.
C24_SingleSync ==
    /\ Len(loops) <= 1
    /\ state.isSyncing <=> Len(loops) = 1

\* A sync call (timer, hand, cleanup or addPendingPointage) made while a loop
\* holding two pointages is between its sends, after a failed send
C24_Witness ==
    /\ Len(loops) = 1
    /\ Len(loops[1].toSync) = 1
    /\ Len(state.pendingPointages) = 3
    /\ pointages[1] = 1
    /\ ~state.syncInterval

\* A loop that finished after a failure and a success
C24_WitnessFinished ==
    /\ Len(loops) = 0
    /\ ~state.isSyncing
    /\ Len(pointages) = 2
    /\ pointages[1] = 1
    /\ 2 \in backend.synced

\* C25 (Pending queue drains): while the auto-sync timer runs and every
\* request is eventually answered, every pointage in the pending queue is
\* eventually out of it.
C25_Drains == \A id \in 1..MaxPointages : (id \in Pending) ~> (id \notin Pending)

\* A pointage dropped after MAX_RETRY_ATTEMPTS failed sends while another
\* one was synced
C25_Witness ==
    /\ Len(pointages) = 2
    /\ pointages[1] = MAX_RETRY_ATTEMPTS
    /\ 2 \in backend.synced
    /\ Pending = {}

C26_LeavesOnlyByItself ==
    [][\A id \in Pending :
          id \notin Pending' =>
              /\ \E k \in 1..Len(loops) :
                    loops[k].pc = "fetching" /\ Head(loops[k].toSync) = id
              /\ \/ id \in backend'.synced /\ pointages'[id] = pointages[id]
                 \/ pointages'[id] = MAX_RETRY_ATTEMPTS /\ pointages[id] < MAX_RETRY_ATTEMPTS]_vars

-----------------------------------------------------------------------------
(* Properties of the application controller, under SpecApp                 *)

\* Nothing of the application is rendered
NothingRendered ==
    /\ ~dom.sidebar
    /\ dom.container.kind = "empty"
    /\ AppState.currentView = "null"
    /\ calls = <<>>

\* C27 (Unauthenticated start): once initializeApp has run without a valid
\* token, the browser is at the login page and neither the sidebar nor any
\* view is rendered.
C27_UnauthenticatedStart ==
    (history.started /\ ~history.authenticated) =>
        /\ location.href = "login.html"
        /\ NothingRendered

\* What the code does: nothing is rendered, the token is gone, and the page
\* stays where it was, 'login.html' being refused by secureRedirect
C27_StaysOnPage ==
    (history.started /\ ~history.authenticated) =>
        /\ location.href = location.origin \o "/index.html"
        /\ session = "missing"
        /\ NothingRendered

\* All the loads asked for have completed, none of them failed
AllLoaded == calls = <<>> /\ history.requested # "none" /\ ~history.failed

\* C30 (View switching under interleaving): when all loads have completed
\* successfully, the current view, the highlighted nav item and the content
\* of the view container are those of the view requested last.
C30_LastRequestedView ==
    AllLoaded =>
        /\ AppState.currentView = history.requested
        /\ dom.activeNav = history.requested
        /\ dom.container = [kind |-> "view", view |-> history.requested]

\* What the code keeps: the nav item and the title are those of the view
\* requested last, and the container shows the current view, which is the
\* view whose load completed last
C30_LastCompletedView ==
    AllLoaded =>
        /\ dom.activeNav = history.requested
        /\ dom.title = history.requested
        /\ dom.container = [kind |-> "view", view |-> AppState.currentView]

-----------------------------------------------------------------------------
(* Properties of the invoice module, under SpecInvoices                    *)

\* The call settled last returned data of the cache
FromCache(op) == resolved.op = op /\ resolved.source \in {"cache", "fallback"}

\* C28 (Invoice list cache): every result that listInvoices(F) returns from
\* the cache, directly or through the error fallback, was stored less than
\* CACHE_EXPIRY earlier and was stored for the filter set F.
C28_ListCache ==
    FromCache("list") =>
        /\ resolved.at - resolved.storedAt < CACHE_EXPIRY
        /\ resolved.storedFor = resolved.arg

\* What the code keeps: data returned from the cache is always fresh, and
\* what is returned directly was stored for the filters asked for
C28_ListCacheFresh ==
    FromCache("list") =>
        /\ resolved.storedAt > 0
        /\ resolved.at - resolved.storedAt < CACHE_EXPIRY
        /\ resolved.source = "cache" => resolved.storedFor = resolved.arg
        /\ resolved.value = Matching(resolved.storedFor)

\* C29 (Lookup by id): whenever getInvoice(id) resolves with a record, from
\* the cache, from the network or from the error fallback, the id of the
\* record is id.
C29_LookupById ==
    (resolved.op = "get" /\ resolved.source # "thrown" /\ resolved.value # 0) =>
        resolved.value = resolved.arg

\* What the code keeps: the cache and the network answer with the invoice
\* asked for, and the fallback with the first invoice of the cache, which is
\* fresh, whatever the id asked for
C29_LookupOrFirstCached ==
    resolved.op = "get" =>
        /\ resolved.source \in {"cache", "network"} => resolved.value = resolved.arg
        /\ (resolved.source = "fallback" /\ resolved.value # 0) =>
              /\ resolved.value = Matching(resolved.storedFor)[1]
              /\ resolved.at - resolved.storedAt < CACHE_EXPIRY

=============================================================================
